---- MODULE Spec2Model ----
(***************************************************************************)
(* A model of the suspicious-activity-detector risk engine                 *)
(* (src/suspicious_activity_detector).  RiskEngine owns an account table   *)
(* and eight stateful detectors; assess_event runs them in a fixed order,  *)
(* sums their signals and applies the selected action to the account.      *)
(*                                                                         *)
(* Conventions                                                             *)
(*  - Python dicts are functions whose DOMAIN is the set of keys present.  *)
(*  - Instants and durations are whole seconds (integers).                 *)
(*  - Python floats are exact rationals <<num, den>> (den > 0, reduced)    *)
(*    inside the detectors; signal scores and the two risk thresholds are  *)
(*    integers counted in hundredths of a point (Pts(35) is 35.0).         *)
(*  - session_id None and the empty string are both falsy in the code and  *)
(*    are one value here, NoSession.                                       *)
(***************************************************************************)
EXTENDS Integers, Sequences, FiniteSets, TLC

VARIABLES
    config,             \* EngineConfig bound at construction
    inputs,             \* the input alphabet of this run (fixed by Init)
    accounts,           \* RiskEngine.accounts : user_id -> AccountState
    recent_fingerprints,\* IdentityFingerprinter.recent_fingerprints
    profiles,           \* BehaviorAnomalyDetector.profiles
    transitions,        \* APISequenceModel.transitions
    recent_paths,       \* APISequenceModel.recent_paths
    stats,              \* TimingProfiler.stats : endpoint -> TimingStats
    traces,             \* PivotTracker.traces : trace_id -> list of services
    user_to_ips,        \* GraphModel.user_to_ips
    user_to_devices,    \* GraphModel.user_to_devices
    ip_to_users,        \* GraphModel.ip_to_users
    predictor,          \* AttackSequencePredictor: is_trained and stats
    recent_sequences,   \* RiskEngine.recent_sequences : user_id -> deque of events
    last,               \* the last call made on the engine and what it returned
    calls,              \* number of assess_event calls made so far, per user
    flagged,            \* users an assessment reported frozen or freeze_account froze
    threads,            \* the request threads inside assess_event: position and locals
    replica,            \* a second engine built with the same config, and what its
                        \* last assess_event returned
    tasks               \* the asynchronous path: the broker queue, the ids issued,
                        \* the assessments collection, the tasks that failed

engine == <<accounts, recent_fingerprints, profiles, transitions, recent_paths,
            stats, traces, user_to_ips, user_to_devices, ip_to_users,
            predictor, recent_sequences>>

vars == <<config, inputs, accounts, recent_fingerprints, profiles, transitions,
          recent_paths, stats, traces, user_to_ips, user_to_devices,
          ip_to_users, predictor, recent_sequences, last, calls, flagged, threads, replica,
          tasks>>

----------------------------------------------------------------------------
(* Bounds of the model *)

\* assess_event calls explored in one run
MaxCalls == 6

\* baseline samples fed to the predictor by bootstrap_model in one run
MaxBaseline == 2

\* requests accepted by POST /assess/async in one run
MaxTasks == 3

----------------------------------------------------------------------------
(* Dictionaries *)

EmptyMap == [k \in {} |-> 0]

Put(f, k, v) == [x \in (DOMAIN f) \cup {k} |-> IF x = k THEN v ELSE f[x]]

Get(f, k, default) == IF k \in DOMAIN f THEN f[k] ELSE default

RECURSIVE SumOver(_, _)
SumOver(f, S) ==
    IF S = {} THEN 0
    ELSE LET k == CHOOSE x \in S : TRUE IN f[k] + SumOver(f, S \ {k})

\* sum(d.values())
SumValues(f) == SumOver(f, DOMAIN f)

RECURSIVE SumSeq(_)
SumSeq(s) == IF s = <<>> THEN 0 ELSE Head(s) + SumSeq(Tail(s))

Range(s) == {s[i] : i \in DOMAIN s}

Max(a, b) == IF a >= b THEN a ELSE b

Min(a, b) == IF a <= b THEN a ELSE b

Abs(a) == IF a < 0 THEN -a ELSE a

----------------------------------------------------------------------------
(* Exact rationals standing for Python floats *)

RECURSIVE GCD(_, _)
GCD(a, b) == IF b = 0 THEN a ELSE GCD(b, a % b)

Norm(n, d) ==
    LET g == GCD(Abs(n), Abs(d))
        s == IF d < 0 THEN -1 ELSE 1
    IN  <<(s * n) \div g, (s * d) \div g>>

Rat(n) == <<n, 1>>

RAdd(a, b) ==
    LET g == GCD(a[2], b[2])
    IN  Norm(a[1] * (b[2] \div g) + b[1] * (a[2] \div g), a[2] * (b[2] \div g))

RNeg(a) == <<-a[1], a[2]>>

RSub(a, b) == RAdd(a, RNeg(b))

RMul(a, b) ==
    LET g1 == GCD(Abs(a[1]), b[2])
        g2 == GCD(Abs(b[1]), a[2])
        h1 == IF g1 = 0 THEN 1 ELSE g1
        h2 == IF g2 = 0 THEN 1 ELSE g2
    IN  Norm((a[1] \div h1) * (b[1] \div h2), (a[2] \div h2) * (b[2] \div h1))

\* a / b for b # 0
RDiv(a, b) == RMul(a, IF b[1] < 0 THEN <<-b[2], -b[1]>> ELSE <<b[2], b[1]>>)

RAbs(a) == <<Abs(a[1]), a[2]>>

RLt(a, b) == a[1] * b[2] < b[1] * a[2]

RLe(a, b) == a[1] * b[2] <= b[1] * a[2]

RMin(a, b) == IF RLe(a, b) THEN a ELSE b

\* floor of a non-negative rational
RFloor(a) == a[1] \div a[2]

\* a score in hundredths of a point
Pts(n) == n * 100

----------------------------------------------------------------------------
(* config.py *)

\* EngineConfig() with every field at its default
DefaultConfig ==
    [ high_risk_threshold                |-> Pts(85),
      medium_risk_threshold              |-> Pts(60),
      sequence_window                    |-> 10,
      behavior_window                    |-> 24 * 3600,
      timing_sigma_threshold             |-> 3,
      privilege_drift_threshold          |-> 3,
      multi_actor_window                 |-> 6 * 3600,
      pivot_depth_threshold              |-> 4,
      attack_prediction_contamination    |-> <<8, 100>>,
      attack_prediction_score_multiplier |-> 100 ]

\* evaluate_action with a strict comparison against the high threshold
evaluate_action_strict(cfg, risk_score) ==
    IF risk_score > cfg.high_risk_threshold THEN "freeze_account"
    ELSE IF risk_score >= cfg.medium_risk_threshold THEN "force_logout"
    ELSE "monitor"

\* EngineConfig.evaluate_action
evaluate_action(cfg, risk_score) ==
    IF risk_score >= cfg.high_risk_threshold THEN "freeze_account"
    ELSE IF risk_score >= cfg.medium_risk_threshold THEN "force_logout"
    ELSE "monitor"

----------------------------------------------------------------------------
(* models.py *)

\* Optional[...] = None
None == "<None>"

\* a falsy session_id (None or "")
NoSession == ""

\* privilege_change = None
NoChange == [is_none |-> TRUE]

RiskSignal(name, score) == [name |-> name, score |-> score]

SessionState(session_id, device_id, created_at, last_seen, ip) ==
    [ session_id |-> session_id, device_id |-> device_id,
      created_at |-> created_at, last_seen |-> last_seen, ip |-> ip ]

\* AccountState(user_id=user_id)
AccountState(user_id) ==
    [ user_id           |-> user_id,
      sessions          |-> EmptyMap,
      frozen            |-> FALSE,
      privilege_history |-> <<>>,
      last_fingerprint  |-> None ]

\* AccountState.update_session
update_session(account, session) ==
    [account EXCEPT !.sessions = Put(@, session.session_id, session),
                    !.last_fingerprint = session.device_id]

\* expire_session that removes nothing
expire_session_keep(account, session_id) == account

\* AccountState.expire_session: sessions.pop(session_id, None)
expire_session(account, session_id) ==
    [account EXCEPT !.sessions =
        [k \in (DOMAIN @) \ {session_id} |-> @[k]]]

\* TimingStats()
TimingStats0 == [count |-> 0, mean |-> Rat(0), m2 |-> Rat(0)]

\* TimingStats.update from the store of self.count on: count is the value
\* self.count += 1 stores, the rest is Welford's update
TimingStats_store(st, count, value) ==
    LET delta  == RSub(Rat(value), st.mean)
        mean   == RAdd(st.mean, RDiv(delta, Rat(count)))
        delta2 == RSub(Rat(value), mean)
    IN  [count |-> count, mean |-> mean, m2 |-> RAdd(st.m2, RMul(delta, delta2))]

\* TimingStats.update: self.count += 1 loads and stores without interruption
TimingStats_update(st, value) == TimingStats_store(st, st.count + 1, value)

\* TimingStats.variance
TimingStats_variance(st) ==
    IF st.count < 2 THEN Rat(0) ELSE RDiv(st.m2, Rat(st.count - 1))

----------------------------------------------------------------------------
(* fingerprinting.py *)

\* hashlib.sha256(payload).hexdigest(): a collision-free digest of the payload
SHA256(payload) == <<"sha256", payload>>

\* a fingerprint that also covers the session id
fingerprint_with_session(identity) ==
    SHA256(identity.device_id \o "|" \o identity.ip \o "|" \o identity.geo \o "|"
           \o identity.user_agent \o "|" \o identity.user_id \o "|"
           \o identity.session_id)

\* IdentityFingerprinter.fingerprint
fingerprint(identity) ==
    SHA256(identity.device_id \o "|" \o identity.ip \o "|" \o identity.geo \o "|"
           \o identity.user_agent \o "|" \o identity.user_id)

\* detect_multi_actor with a strict comparison against the window
detect_multi_actor_strict(recent, identity, multi_actor_window) ==
    LET fp   == fingerprint(identity)
        user == identity.user_id
        new  == Put(recent, user, <<fp, identity.timestamp>>)
    IN  IF user \notin DOMAIN recent
        THEN [recent |-> new, signals |-> <<>>]
        ELSE IF recent[user][1] # fp
                /\ identity.timestamp - recent[user][2] < multi_actor_window
             THEN [recent |-> new,
                   signals |-> <<RiskSignal("multi_actor_detection", Pts(25))>>]
             ELSE [recent |-> new, signals |-> <<>>]

\* IdentityFingerprinter.detect_multi_actor: the new table and the signals
detect_multi_actor(recent, identity, multi_actor_window) ==
    LET fp   == fingerprint(identity)
        user == identity.user_id
        new  == Put(recent, user, <<fp, identity.timestamp>>)
    IN  IF user \notin DOMAIN recent
        THEN [recent |-> new, signals |-> <<>>]
        ELSE LET previous_fp == recent[user][1]
                 previous_ts == recent[user][2]
             IN  IF previous_fp # fp
                    /\ identity.timestamp - previous_ts <= multi_actor_window
                 THEN [recent |-> new,
                       signals |-> <<RiskSignal("multi_actor_detection", Pts(25))>>]
                 ELSE [recent |-> new, signals |-> <<>>]

----------------------------------------------------------------------------
(* behavior_analyzer.py *)

\* BehaviorProfile(window)
BehaviorProfile0 == [events |-> <<>>, endpoint_counter |-> EmptyMap]

\* _trim with an if in place of the while: at most one event is dropped
trim_once(profile, now, window) ==
    IF profile.events # <<>> /\ now - Head(profile.events).timestamp > window
    THEN LET old == Head(profile.events)
             n   == Get(profile.endpoint_counter, old.endpoint, 0) - 1
         IN  [events |-> Tail(profile.events),
              endpoint_counter |->
                  IF n <= 0
                  THEN [k \in (DOMAIN profile.endpoint_counter) \ {old.endpoint}
                          |-> profile.endpoint_counter[k]]
                  ELSE Put(profile.endpoint_counter, old.endpoint, n)]
    ELSE profile

\* _trim without the deletion of an endpoint whose count reaches zero
RECURSIVE trim_keep_zero(_, _, _)
trim_keep_zero(profile, now, window) ==
    IF profile.events # <<>> /\ now - Head(profile.events).timestamp > window
    THEN LET old == Head(profile.events)
             n   == Get(profile.endpoint_counter, old.endpoint, 0) - 1
         IN  trim_keep_zero([events |-> Tail(profile.events),
                             endpoint_counter |->
                                 Put(profile.endpoint_counter, old.endpoint, n)],
                            now, window)
    ELSE profile

\* BehaviorProfile._trim
RECURSIVE trim(_, _, _)
trim(profile, now, window) ==
    IF profile.events # <<>> /\ now - Head(profile.events).timestamp > window
    THEN LET old == Head(profile.events)
             n   == Get(profile.endpoint_counter, old.endpoint, 0) - 1
             c   == IF n <= 0
                    THEN [k \in (DOMAIN profile.endpoint_counter) \ {old.endpoint}
                            |-> profile.endpoint_counter[k]]
                    ELSE Put(profile.endpoint_counter, old.endpoint, n)
         IN  trim([events |-> Tail(profile.events), endpoint_counter |-> c],
                  now, window)
    ELSE profile

\* BehaviorProfile.observe
BehaviorProfile_observe(profile, event, window) ==
    trim([events |-> Append(profile.events, event),
          endpoint_counter |->
              Put(profile.endpoint_counter, event.endpoint,
                  Get(profile.endpoint_counter, event.endpoint, 0) + 1)],
         event.timestamp, window)

\* BehaviorProfile.request_rate
request_rate(profile) ==
    IF profile.events = <<>> THEN Rat(0)
    ELSE LET ev == profile.events
             window_seconds == Max(ev[Len(ev)].timestamp - ev[1].timestamp, 1)
         IN  Norm(Len(ev), window_seconds)

\* BehaviorProfile.endpoint_skew
endpoint_skew(profile, endpoint) ==
    LET s     == SumValues(profile.endpoint_counter)
        total == IF s = 0 THEN 1 ELSE s
    IN  Norm(Get(profile.endpoint_counter, endpoint, 0), total)

\* the surge with a denominator of rate_before + 1
surge_of_unit(rate_before, rate_after) ==
    RDiv(RSub(rate_after, rate_before), RAdd(rate_before, Rat(1)))

\* surge = (rate_after - rate_before) / (rate_before + 0.01)
surge_of(rate_before, rate_after) ==
    RDiv(RSub(rate_after, rate_before), RAdd(rate_before, <<1, 100>>))

\* BehaviorAnomalyDetector.assess with the endpoint branch tested first
BehaviorAnomalyDetector_assess_endpoint_first(profs, user_id, event, window) ==
    LET profile == Get(profs, user_id, BehaviorProfile0)
        request_rate_before   == request_rate(profile)
        endpoint_ratio_before == endpoint_skew(profile, event.endpoint)
        after == BehaviorProfile_observe(profile, event, window)
        request_rate_after    == request_rate(after)
        endpoint_ratio_after  == endpoint_skew(after, event.endpoint)
        surge == surge_of(request_rate_before, request_rate_after)
        endpoint_spike == RSub(endpoint_ratio_after, endpoint_ratio_before)
        sig == IF RLt(<<3, 10>>, endpoint_spike) /\ RLt(<<1, 2>>, endpoint_ratio_after)
               THEN <<RiskSignal("behavior_endpoint_anomaly", Pts(25))>>
               ELSE IF RLt(Rat(2), surge)
               THEN <<RiskSignal("behavior_rate_anomaly",
                         RFloor(RMul(Rat(100), RMin(RMul(Rat(20), surge), Rat(40)))))>>
               ELSE <<>>
    IN  [profiles |-> Put(profs, user_id, after), signals |-> sig]

\* BehaviorAnomalyDetector.assess emitting the rate anomaly when surge > 1.0
BehaviorAnomalyDetector_assess_surge_above_one(profs, user_id, event, window) ==
    LET profile == Get(profs, user_id, BehaviorProfile0)
        request_rate_before   == request_rate(profile)
        endpoint_ratio_before == endpoint_skew(profile, event.endpoint)
        after == BehaviorProfile_observe(profile, event, window)
        request_rate_after    == request_rate(after)
        endpoint_ratio_after  == endpoint_skew(after, event.endpoint)
        surge == surge_of(request_rate_before, request_rate_after)
        endpoint_spike == RSub(endpoint_ratio_after, endpoint_ratio_before)
        sig == IF RLt(Rat(1), surge)
               THEN <<RiskSignal("behavior_rate_anomaly",
                         RFloor(RMul(Rat(100), RMin(RMul(Rat(20), surge), Rat(40)))))>>
               ELSE IF RLt(<<3, 10>>, endpoint_spike) /\ RLt(<<1, 2>>, endpoint_ratio_after)
               THEN <<RiskSignal("behavior_endpoint_anomaly", Pts(25))>>
               ELSE <<>>
    IN  [profiles |-> Put(profs, user_id, after), signals |-> sig]

\* BehaviorAnomalyDetector.assess: the new profile table and the signals
BehaviorAnomalyDetector_assess(profs, user_id, event, window) ==
    LET profile == Get(profs, user_id, BehaviorProfile0)
        request_rate_before   == request_rate(profile)
        endpoint_ratio_before == endpoint_skew(profile, event.endpoint)
        after == BehaviorProfile_observe(profile, event, window)
        request_rate_after    == request_rate(after)
        endpoint_ratio_after  == endpoint_skew(after, event.endpoint)
        surge == surge_of(request_rate_before, request_rate_after)
        endpoint_spike == RSub(endpoint_ratio_after, endpoint_ratio_before)
        sig == IF RLt(Rat(2), surge)
               THEN <<RiskSignal("behavior_rate_anomaly",
                         RFloor(RMul(Rat(100), RMin(RMul(Rat(20), surge), Rat(40)))))>>
               ELSE IF RLt(<<3, 10>>, endpoint_spike) /\ RLt(<<1, 2>>, endpoint_ratio_after)
               THEN <<RiskSignal("behavior_endpoint_anomaly", Pts(25))>>
               ELSE <<>>
    IN  [profiles |-> Put(profs, user_id, after), signals |-> sig]

\* BehaviorAnomalyDetector.volume_summary
volume_summary(profs, user_id) ==
    IF user_id \notin DOMAIN profs \/ profs[user_id].events = <<>>
    THEN [request_rate |-> Rat(0)]
    ELSE [request_rate |-> request_rate(profs[user_id])]

----------------------------------------------------------------------------
(* sequence_model.py *)

\* APISequenceModel.observe up to the load of transitions[prev][endpoint]:
\* whether the path is non-empty, its last endpoint, the count loaded
observe_load(trans, paths, user_id, event) ==
    LET path == Get(paths, user_id, <<>>)
    IN  IF path = <<>> THEN [has_prev |-> FALSE]
        ELSE [has_prev |-> TRUE, prev |-> path[Len(path)],
              count |-> Get(Get(trans, path[Len(path)], EmptyMap), event.endpoint, 0)]

\* APISequenceModel.observe from the store of transitions[prev][endpoint] on:
\* the count loaded plus one is stored, the endpoint appended, the path capped
observe_store(trans, paths, user_id, event, window, loaded) ==
    LET appended == Append(Get(paths, user_id, <<>>), event.endpoint)
    IN  [transitions |->
            IF loaded.has_prev
            THEN Put(trans, loaded.prev,
                     Put(Get(trans, loaded.prev, EmptyMap), event.endpoint,
                         loaded.count + 1))
            ELSE trans,
         recent_paths |->
            Put(paths, user_id,
                IF Len(appended) > window THEN Tail(appended) ELSE appended)]

\* APISequenceModel.observe: the new transition table and paths
APISequenceModel_observe(trans, paths, user_id, event, window) ==
    observe_store(trans, paths, user_id, event, window,
                  observe_load(trans, paths, user_id, event))

\* APISequenceModel.score reading the counts after the event is recorded
APISequenceModel_score_after(trans, paths, user_id, event, window) ==
    LET path == Get(paths, user_id, <<>>)
        obs  == APISequenceModel_observe(trans, paths, user_id, event, window)
    IN  IF path = <<>>
        THEN [transitions |-> obs.transitions, recent_paths |-> obs.recent_paths,
              signals |-> <<>>]
        ELSE LET prev        == path[Len(path)]
                 next_counts == Get(obs.transitions, prev, EmptyMap)
                 s           == SumValues(next_counts)
                 total       == IF s = 0 THEN 1 ELSE s
                 probability == Norm(Get(next_counts, event.endpoint, 0), total)
             IN  [transitions |-> obs.transitions, recent_paths |-> obs.recent_paths,
                  signals |-> IF RLt(probability, <<5, 100>>) /\ total >= 2
                              THEN <<RiskSignal("api_sequence_anomaly", Pts(30))>>
                              ELSE <<>>]

\* APISequenceModel.score: the new tables and the signals
APISequenceModel_score(trans, paths, user_id, event, window) ==
    LET path == Get(paths, user_id, <<>>)
        obs  == APISequenceModel_observe(trans, paths, user_id, event, window)
    IN  IF path = <<>>
        THEN [transitions |-> obs.transitions, recent_paths |-> obs.recent_paths,
              signals |-> <<>>]
        ELSE LET prev        == path[Len(path)]
                 next_counts == Get(trans, prev, EmptyMap)
                 s           == SumValues(next_counts)
                 total       == IF s = 0 THEN 1 ELSE s
                 probability == Norm(Get(next_counts, event.endpoint, 0), total)
             IN  [transitions |-> obs.transitions, recent_paths |-> obs.recent_paths,
                  signals |-> IF RLt(probability, <<5, 100>>) /\ total >= 2
                              THEN <<RiskSignal("api_sequence_anomaly", Pts(30))>>
                              ELSE <<>>]

\* APISequenceModel.recent_sequence
recent_sequence(paths, user_id) == Get(paths, user_id, <<>>)

----------------------------------------------------------------------------
(* security_monitors.py *)

\* deviation > sigma_threshold * (stddev + 1e-6), with stddev = variance ** 0.5,
\* decided without the square root: with q = deviation / sigma it is
\* (q - 1e-6)^2 > variance, i.e. (q^2 - variance) / (2q) > 1e-6 up to a term
\* of order 1e-12.
ExceedsSigma(deviation, variance, sigma) ==
    LET q == RDiv(deviation, Rat(sigma))
        D == RSub(RMul(q, q), variance)
    IN  /\ D[1] > 0
        /\ LET X == RDiv(D, RMul(Rat(2), q))
           IN  X[1] >= (X[2] + 999999) \div 1000000

\* TimingProfiler.assess after stats.update: the test of the latency against
\* the updated statistics
TimingProfiler_test(s2, event, sigma_threshold) ==
    LET deviation == RAbs(RSub(Rat(event.latency_ms), s2.mean))
    IN  IF s2.count < 5 THEN <<>>
        ELSE IF ExceedsSigma(deviation, TimingStats_variance(s2), sigma_threshold)
        THEN <<RiskSignal("timing_anomaly", Pts(15))>>
        ELSE <<>>

\* TimingProfiler.assess testing the latency against the statistics of the
\* earlier samples only
TimingProfiler_assess_before(st, event, sigma_threshold) ==
    LET s1        == Get(st, event.endpoint, TimingStats0)
        deviation == RAbs(RSub(Rat(event.latency_ms), s1.mean))
    IN  [stats |-> Put(st, event.endpoint, TimingStats_update(s1, event.latency_ms)),
         signals |-> IF s1.count + 1 < 5 THEN <<>>
                     ELSE IF ExceedsSigma(deviation, TimingStats_variance(s1),
                                          sigma_threshold)
                     THEN <<RiskSignal("timing_anomaly", Pts(15))>>
                     ELSE <<>>]

\* TimingProfiler.assess: the new statistics and the signals
TimingProfiler_assess(st, event, sigma_threshold) ==
    LET s2 == TimingStats_update(Get(st, event.endpoint, TimingStats0),
                                 event.latency_ms)
    IN  [stats |-> Put(st, event.endpoint, s2),
         signals |-> TimingProfiler_test(s2, event, sigma_threshold)]

\* history[-drift_threshold:]
Trailing(history, n) ==
    IF n = 0 \/ n >= Len(history) THEN history
    ELSE SubSeq(history, Len(history) - n + 1, Len(history))

\* PrivilegeMonitor.assess that records only the changes that escalate
PrivilegeMonitor_assess_escalations_only(account, change, drift_threshold) ==
    LET escalated == change # NoChange
                     /\ change.new_privileges \ change.previous_privileges # {}
        history == IF escalated THEN Append(account.privilege_history, change)
                   ELSE account.privilege_history
        recent     == Trailing(history, drift_threshold)
        union_prev == UNION {recent[i].previous_privileges : i \in DOMAIN recent}
        union_new  == UNION {recent[i].new_privileges : i \in DOMAIN recent}
    IN  [account |-> [account EXCEPT !.privilege_history = history],
         signals |->
            (IF escalated THEN <<RiskSignal("privilege_escalation", Pts(35))>> ELSE <<>>)
            \o (IF Len(history) >= drift_threshold /\ union_new \ union_prev # {}
                THEN <<RiskSignal("privilege_drift", Pts(20))>> ELSE <<>>)]

\* PrivilegeMonitor.assess that looks for drift only when a change is supplied
PrivilegeMonitor_assess_drift_on_change(account, change, drift_threshold) ==
    LET escalation ==
            IF change # NoChange /\ change.new_privileges \ change.previous_privileges # {}
            THEN <<RiskSignal("privilege_escalation", Pts(35))>>
            ELSE <<>>
        history ==
            IF change # NoChange THEN Append(account.privilege_history, change)
            ELSE account.privilege_history
        recent     == Trailing(history, drift_threshold)
        union_prev == UNION {recent[i].previous_privileges : i \in DOMAIN recent}
        union_new  == UNION {recent[i].new_privileges : i \in DOMAIN recent}
        drift ==
            IF change # NoChange /\ Len(history) >= drift_threshold
               /\ union_new \ union_prev # {}
            THEN <<RiskSignal("privilege_drift", Pts(20))>>
            ELSE <<>>
    IN  [account |-> [account EXCEPT !.privilege_history = history],
         signals |-> escalation \o drift]

\* PrivilegeMonitor.assess: the account with its new history and the signals
PrivilegeMonitor_assess(account, change, drift_threshold) ==
    LET escalation ==
            IF change # NoChange /\ change.new_privileges \ change.previous_privileges # {}
            THEN <<RiskSignal("privilege_escalation", Pts(35))>>
            ELSE <<>>
        history ==
            IF change # NoChange THEN Append(account.privilege_history, change)
            ELSE account.privilege_history
        recent     == Trailing(history, drift_threshold)
        union_prev == UNION {recent[i].previous_privileges : i \in DOMAIN recent}
        union_new  == UNION {recent[i].new_privileges : i \in DOMAIN recent}
        drift ==
            IF Len(history) >= drift_threshold /\ union_new \ union_prev # {}
            THEN <<RiskSignal("privilege_drift", Pts(20))>>
            ELSE <<>>
    IN  [account |-> [account EXCEPT !.privilege_history = history],
         signals |-> escalation \o drift]

\* PivotTracker.assess counting the entries of the trace, not the distinct ones
PivotTracker_assess_count_all(tr, event, depth_threshold) ==
    LET trace == Append(Get(tr, event.trace_id, <<>>), event.service)
    IN  [traces |-> Put(tr, event.trace_id, trace),
         signals |-> IF Len(trace) >= depth_threshold
                     THEN <<RiskSignal("microservice_pivot", Pts(18))>>
                     ELSE <<>>]

\* PivotTracker.assess: the new trace table and the signals
PivotTracker_assess(tr, event, depth_threshold) ==
    LET trace == Append(Get(tr, event.trace_id, <<>>), event.service)
        unique_services == Range(trace)
    IN  [traces |-> Put(tr, event.trace_id, trace),
         signals |-> IF Cardinality(unique_services) >= depth_threshold
                     THEN <<RiskSignal("microservice_pivot", Pts(18))>>
                     ELSE <<>>]

\* GraphModel.assess without the insertion into ip_to_users
GraphModel_assess_no_reverse(u2i, u2d, i2u, user_id, ip, device_id) ==
    LET seen_ip     == ip \in Get(u2i, user_id, {})
        seen_device == device_id \in Get(u2d, user_id, {})
        ips     == Put(u2i, user_id, Get(u2i, user_id, {}) \cup {ip})
        devices == Put(u2d, user_id, Get(u2d, user_id, {}) \cup {device_id})
        users   == Put(i2u, ip, Get(i2u, ip, {}))
    IN  [user_to_ips |-> ips, user_to_devices |-> devices, ip_to_users |-> users,
         signals |-> IF ~seen_ip /\ Cardinality(users[ip]) > 3
                     THEN <<RiskSignal("shared_ip_risk", Pts(22))>>
                     ELSE IF ~seen_device /\ Cardinality(devices[user_id]) > 4
                     THEN <<RiskSignal("device_sprawl", Pts(16))>>
                     ELSE <<>>]

\* GraphModel.assess returning both signals when both conditions hold
GraphModel_assess_both(u2i, u2d, i2u, user_id, ip, device_id) ==
    LET seen_ip     == ip \in Get(u2i, user_id, {})
        seen_device == device_id \in Get(u2d, user_id, {})
        ips     == Put(u2i, user_id, Get(u2i, user_id, {}) \cup {ip})
        devices == Put(u2d, user_id, Get(u2d, user_id, {}) \cup {device_id})
        users   == Put(i2u, ip, Get(i2u, ip, {}) \cup {user_id})
    IN  [user_to_ips |-> ips, user_to_devices |-> devices, ip_to_users |-> users,
         signals |-> (IF ~seen_ip /\ Cardinality(users[ip]) > 3
                      THEN <<RiskSignal("shared_ip_risk", Pts(22))>> ELSE <<>>)
                     \o (IF ~seen_device /\ Cardinality(devices[user_id]) > 4
                         THEN <<RiskSignal("device_sprawl", Pts(16))>> ELSE <<>>)]

\* GraphModel.assess: the three new maps and the signals
GraphModel_assess(u2i, u2d, i2u, user_id, ip, device_id) ==
    LET seen_ip     == ip \in Get(u2i, user_id, {})
        seen_device == device_id \in Get(u2d, user_id, {})
        ips     == Put(u2i, user_id, Get(u2i, user_id, {}) \cup {ip})
        devices == Put(u2d, user_id, Get(u2d, user_id, {}) \cup {device_id})
        users   == Put(i2u, ip, Get(i2u, ip, {}) \cup {user_id})
    IN  [user_to_ips |-> ips, user_to_devices |-> devices, ip_to_users |-> users,
         signals |-> IF ~seen_ip /\ Cardinality(users[ip]) > 3
                     THEN <<RiskSignal("shared_ip_risk", Pts(22))>>
                     ELSE IF ~seen_device /\ Cardinality(devices[user_id]) > 4
                     THEN <<RiskSignal("device_sprawl", Pts(16))>>
                     ELSE <<>>]

----------------------------------------------------------------------------
(* attack_predictor.py *)

\* "/admin" in endpoint or "export" in endpoint, over the endpoints of the model
AdminOrExport == {"/admin", "/admin/export", "/export"}

\* _FeatureStats()
FeatureStats0 == [count |-> 0, mean |-> <<>>, m2 |-> <<>>]

\* _FeatureStats.update (Welford, per feature)
FeatureStats_update(st, vector) ==
    LET mean0 == IF st.mean = <<>> THEN [i \in DOMAIN vector |-> Rat(0)] ELSE st.mean
        m20   == IF st.mean = <<>> THEN [i \in DOMAIN vector |-> Rat(0)] ELSE st.m2
        count == st.count + 1
        mean  == [i \in DOMAIN vector |->
                    RAdd(mean0[i], RDiv(RSub(vector[i], mean0[i]), Rat(count)))]
        m2    == [i \in DOMAIN vector |->
                    RAdd(m20[i], RMul(RSub(vector[i], mean0[i]),
                                      RSub(vector[i], mean[i])))]
    IN  [count |-> count, mean |-> mean, m2 |-> m2]

\* AttackSequencePredictor._featurize
featurize(sequence) ==
    LET n == Len(sequence)
        admin_hits    == Cardinality({i \in 1..n : sequence[i].endpoint \in AdminOrExport})
        status_errors == Cardinality({i \in 1..n : sequence[i].status_code >= 400})
        unique_services == Cardinality({sequence[i].service : i \in 1..n})
        avg_latency   == Norm(SumSeq([i \in 1..n |-> sequence[i].latency_ms]),
                              IF n = 0 THEN 1 ELSE n)
        RECURSIVE MaxOut(_)
        MaxOut(i) == IF i = 0 THEN 0 ELSE Max(sequence[i].bytes_out, MaxOut(i - 1))
    IN  << Rat(n), Rat(admin_hits), Rat(status_errors), Rat(unique_services),
           avg_latency, Rat(MaxOut(n)) >>

\* AttackSequencePredictor(...) as constructed
Predictor0 == [is_trained |-> FALSE, stats |-> FeatureStats0]

\* AttackSequencePredictor.threshold = max(contamination, 0.05) * 6
predictor_threshold(contamination) ==
    RMul(IF RLt(contamination, <<5, 100>>) THEN <<5, 100>> ELSE contamination, Rat(6))

\* AttackSequencePredictor.update_baseline
update_baseline(pred, sequence) ==
    LET st == FeatureStats_update(pred.stats, featurize(sequence))
    IN  [is_trained |-> st.count > 0, stats |-> st]

\* AttackSequencePredictor.fit
RECURSIVE fit_loop(_, _)
fit_loop(st, sequences) ==
    IF sequences = <<>> THEN st
    ELSE fit_loop(FeatureStats_update(st, featurize(Head(sequences))), Tail(sequences))

fit(pred, sequences) ==
    LET st == fit_loop(pred.stats, sequences)
    IN  [is_trained |-> st.count > 0, stats |-> st]

\* floor(sqrt(n)) for 0 <= n, searched in lo..hi
RECURSIVE ISqrtIn(_, _, _)
ISqrtIn(n, lo, hi) ==
    IF lo >= hi THEN lo
    ELSE LET mid == (lo + hi + 1) \div 2
         IN  IF mid * mid <= n THEN ISqrtIn(n, mid, hi) ELSE ISqrtIn(n, lo, mid - 1)

\* halve both terms of a positive fraction until they fit the arithmetic below
RECURSIVE Shrink(_)
Shrink(r) == IF r[1] < 2000000 /\ r[2] < 2000000 THEN r
             ELSE Shrink(<<r[1] \div 2, Max(r[2] \div 2, 1)>>)

\* One z-score abs(v - mean) / std in thousandths, rounded down and capped at
\* 1000 (a z-score of 1 or more already saturates the signal's score at the
\* default multiplier).  std is _FeatureStats.stddev: 1.0 when count < 2 or when
\* the sample deviation is 0, else (m2 / (count - 1)) ** 0.5.
ZMilli(v, mean, m2, count) ==
    LET d == RAbs(RSub(v, mean))
    IN  IF count < 2 \/ m2[1] = 0
        THEN IF RLe(Rat(1), d) THEN 1000 ELSE RFloor(RMul(Rat(1000), d))
        ELSE LET zz == RDiv(RMul(RMul(d, d), Rat(count - 1)), m2)
             IN  IF RLe(Rat(1), zz) THEN 1000
                 ELSE LET r  == Shrink(zz)
                          hi == (r[1] * 1000) \div r[2]
                          lo == (((r[1] * 1000) % r[2]) * 1000) \div r[2]
                      IN  ISqrtIn(hi * 1000 + lo, 0, 1000)

\* AttackSequencePredictor.score: the signals (the predictor is only read)
AttackSequencePredictor_score(pred, sequence, contamination, score_multiplier) ==
    IF ~pred.is_trained THEN <<>>
    ELSE LET vector == featurize(sequence)
             thr    == RFloor(RMul(Rat(1000), predictor_threshold(contamination)))
             budget == SumSeq([i \in DOMAIN vector |->
                          Max(ZMilli(vector[i], pred.stats.mean[i], pred.stats.m2[i],
                                     pred.stats.count) - thr, 0)])
         IN  IF budget <= 0 THEN <<>>
             ELSE <<RiskSignal("ml_attack_prediction",
                               Min((budget * score_multiplier) \div 10, Pts(30)))>>

----------------------------------------------------------------------------
(* risk_engine.py *)

\* the engine's mutable state as one value
EngineState ==
    [ accounts            |-> accounts,
      recent_fingerprints |-> recent_fingerprints,
      profiles            |-> profiles,
      transitions         |-> transitions,
      recent_paths        |-> recent_paths,
      stats               |-> stats,
      traces              |-> traces,
      user_to_ips         |-> user_to_ips,
      user_to_devices     |-> user_to_devices,
      ip_to_users         |-> ip_to_users,
      predictor           |-> predictor,
      recent_sequences    |-> recent_sequences ]

\* RiskEngine.__init__
NewEngine ==
    [ accounts            |-> EmptyMap,
      recent_fingerprints |-> EmptyMap,
      profiles            |-> EmptyMap,
      transitions         |-> EmptyMap,
      recent_paths        |-> EmptyMap,
      stats               |-> EmptyMap,
      traces              |-> EmptyMap,
      user_to_ips         |-> EmptyMap,
      user_to_devices     |-> EmptyMap,
      ip_to_users         |-> EmptyMap,
      predictor           |-> Predictor0,
      recent_sequences    |-> EmptyMap ]

\* RiskEngine._get_account: accounts.setdefault(user_id, AccountState(user_id))
get_account(accts, user_id) == Get(accts, user_id, AccountState(user_id))

\* identity.session_id or f"session-{identity.user_id}"
session_key(identity) ==
    IF identity.session_id # NoSession THEN identity.session_id
    ELSE "session-" \o identity.user_id

\* identity.session_id or ""
expiry_key(identity) ==
    IF identity.session_id # NoSession THEN identity.session_id ELSE ""

\* a session upsert that skips a frozen account
upsert_session_unless_frozen(account, identity) ==
    IF account.frozen THEN account
    ELSE update_session(account,
             SessionState(session_key(identity), identity.device_id,
                          identity.timestamp, identity.timestamp, identity.ip))

\* a session upsert that, once the account has held a session, only refreshes
\* the sessions it still holds
upsert_session_refresh_only(account, identity) ==
    IF account.last_fingerprint # None /\ session_key(identity) \notin DOMAIN account.sessions
    THEN [account EXCEPT !.last_fingerprint = identity.device_id]
    ELSE update_session(account,
             SessionState(session_key(identity), identity.device_id,
                          identity.timestamp, identity.timestamp, identity.ip))

\* assess_event, step 1: the session upsert
upsert_session(account, identity) ==
    update_session(account,
        SessionState(session_key(identity), identity.device_id,
                     identity.timestamp, identity.timestamp, identity.ip))

\* the bootstrap guard without the halving of sequence_window
bootstrap_due_full(pred, queue, sequence_window) ==
    ~pred.is_trained /\ Len(queue) >= Max(3, sequence_window)

\* the bootstrap guard of _update_sequence
bootstrap_due(pred, queue, sequence_window) ==
    ~pred.is_trained /\ Len(queue) >= Max(3, sequence_window \div 2)

\* _update_sequence evicting with pop() in place of popleft()
update_sequence_pop_newest(queues, pred, user_id, event, sequence_window) ==
    LET appended == Append(Get(queues, user_id, <<>>), event)
        queue    == IF Len(appended) > sequence_window
                    THEN SubSeq(appended, 1, Len(appended) - 1) ELSE appended
    IN  [recent_sequences |-> Put(queues, user_id, queue),
         predictor |-> IF bootstrap_due(pred, queue, sequence_window)
                       THEN update_baseline(pred, queue) ELSE pred,
         queue |-> queue]

\* _update_sequence returning the queue as it was before the append
update_sequence_return_previous(queues, pred, user_id, event, sequence_window) ==
    LET appended == Append(Get(queues, user_id, <<>>), event)
        queue    == IF Len(appended) > sequence_window THEN Tail(appended) ELSE appended
    IN  [recent_sequences |-> Put(queues, user_id, queue),
         predictor |-> IF bootstrap_due(pred, queue, sequence_window)
                       THEN update_baseline(pred, queue) ELSE pred,
         queue |-> Get(queues, user_id, <<>>)]

\* RiskEngine._update_sequence: the new queues, the predictor and the queue returned
update_sequence(queues, pred, user_id, event, sequence_window) ==
    LET appended == Append(Get(queues, user_id, <<>>), event)
        queue    == IF Len(appended) > sequence_window THEN Tail(appended) ELSE appended
    IN  [recent_sequences |-> Put(queues, user_id, queue),
         predictor |-> IF bootstrap_due(pred, queue, sequence_window)
                       THEN update_baseline(pred, queue) ELSE pred,
         queue |-> queue]

\* assess_event, the side effects of the action on the account
apply_action(account, action, identity) ==
    LET a1 == IF action = "freeze_account" THEN [account EXCEPT !.frozen = TRUE]
              ELSE account
    IN  IF action = "force_logout" THEN expire_session(a1, expiry_key(identity))
        ELSE a1

\* the highest score in place of the sum
total_of_highest(signals) ==
    IF signals = <<>> THEN 0
    ELSE CHOOSE m \in {signals[i].score : i \in DOMAIN signals} :
             \A i \in DOMAIN signals : signals[i].score <= m

\* sum(signal.score for signal in signals)
total_of(signals) == SumSeq([i \in DOMAIN signals |-> signals[i].score])

\* assess_event, steps 1 to 3: what each detector returns, in call order
run_detectors(E, cfg, identity, event, privilege_change) ==
    [ fp |-> detect_multi_actor(E.recent_fingerprints, identity, cfg.multi_actor_window),
      bh |-> BehaviorAnomalyDetector_assess(E.profiles, identity.user_id, event,
                                            cfg.behavior_window),
      sq |-> APISequenceModel_score(E.transitions, E.recent_paths, identity.user_id,
                                    event, cfg.sequence_window),
      tm |-> TimingProfiler_assess(E.stats, event, cfg.timing_sigma_threshold),
      pv |-> PrivilegeMonitor_assess(
                 upsert_session(get_account(E.accounts, identity.user_id), identity),
                 privilege_change, cfg.privilege_drift_threshold),
      pt |-> PivotTracker_assess(E.traces, event, cfg.pivot_depth_threshold),
      gr |-> GraphModel_assess(E.user_to_ips, E.user_to_devices, E.ip_to_users,
                               identity.user_id, identity.ip, identity.device_id),
      us |-> update_sequence(E.recent_sequences, E.predictor, identity.user_id, event,
                             cfg.sequence_window) ]

\* the signals list with the privilege signals ahead of the behavior signal
collect_signals_privilege_first(cfg, d) ==
    d.fp.signals \o d.pv.signals \o d.bh.signals \o d.sq.signals \o d.tm.signals
    \o d.pt.signals \o d.gr.signals
    \o AttackSequencePredictor_score(d.us.predictor, d.us.queue,
           cfg.attack_prediction_contamination,
           cfg.attack_prediction_score_multiplier)

\* the signals list of assess_event: the predictor scores the queue that
\* _update_sequence returned
collect_signals(cfg, d) ==
    d.fp.signals \o d.bh.signals \o d.sq.signals \o d.tm.signals \o d.pv.signals
    \o d.pt.signals \o d.gr.signals
    \o AttackSequencePredictor_score(d.us.predictor, d.us.queue,
           cfg.attack_prediction_contamination,
           cfg.attack_prediction_score_multiplier)

\* the assessment with session_invalidated set on every action but monitor
Assessment_any_action(signals, action) ==
    [ total_score         |-> total_of(signals),
      signals             |-> signals,
      action              |-> action,
      account_frozen      |-> (action = "freeze_account"),
      session_invalidated |-> (action # "monitor") ]

\* RiskAssessment(...) and the two flags assess_event sets after it
Assessment(signals, action) ==
    [ total_score         |-> total_of(signals),
      signals             |-> signals,
      action              |-> action,
      account_frozen      |-> (action = "freeze_account"),
      session_invalidated |-> (action = "force_logout") ]

\* assess_event, steps 4 to 6: total, action, side effects, assessment
conclude(E, cfg, identity, d, signals, action) ==
    [ engine |->
        [ accounts            |-> Put(E.accounts, identity.user_id,
                                      apply_action(d.pv.account, action, identity)),
          recent_fingerprints |-> d.fp.recent,
          profiles            |-> d.bh.profiles,
          transitions         |-> d.sq.transitions,
          recent_paths        |-> d.sq.recent_paths,
          stats               |-> d.tm.stats,
          traces              |-> d.pt.traces,
          user_to_ips         |-> d.gr.user_to_ips,
          user_to_devices     |-> d.gr.user_to_devices,
          ip_to_users         |-> d.gr.ip_to_users,
          predictor           |-> d.us.predictor,
          recent_sequences    |-> d.us.recent_sequences ],
      assessment |-> Assessment(signals, action) ]

score_and_act(E, cfg, identity, d, signals) ==
    conclude(E, cfg, identity, d, signals, evaluate_action(cfg, total_of(signals)))

aggregate(E, cfg, identity, d) ==
    score_and_act(E, cfg, identity, d, collect_signals(cfg, d))

\* no assessment returned yet
NoAssessment == [is_none |-> TRUE]

\* RiskEngine.assess_event: the engine state after the call and the assessment
assess_event(E, cfg, identity, event, privilege_change) ==
    aggregate(E, cfg, identity,
              run_detectors(E, cfg, identity, event, privilege_change))

\* RiskEngine.bootstrap_model
bootstrap_model(E, baseline_sequences) ==
    IF baseline_sequences # <<>>
    THEN [E EXCEPT !.predictor = fit(@, baseline_sequences)]
    ELSE E

\* freeze_account that also drops the sessions
freeze_account_and_logout(E, user_id) ==
    [E EXCEPT !.accounts =
        Put(@, user_id, [get_account(@, user_id) EXCEPT !.frozen = TRUE,
                                                        !.sessions = EmptyMap])]

\* RiskEngine.freeze_account
freeze_account(E, user_id) ==
    [E EXCEPT !.accounts =
        Put(@, user_id, [get_account(@, user_id) EXCEPT !.frozen = TRUE])]

\* reset_sessions replacing the account by a new one
reset_sessions_new_account(E, user_id) ==
    [E EXCEPT !.accounts = Put(@, user_id, AccountState(user_id))]

\* reset_sessions that also lifts the freeze
reset_sessions_and_unfreeze(E, user_id) ==
    [E EXCEPT !.accounts =
        Put(@, user_id, [get_account(@, user_id) EXCEPT !.sessions = EmptyMap,
                                                        !.frozen = FALSE])]

\* RiskEngine.reset_sessions
reset_sessions(E, user_id) ==
    [E EXCEPT !.accounts =
        Put(@, user_id, [get_account(@, user_id) EXCEPT !.sessions = EmptyMap])]

\* summary that stores a new account in place of accounts.setdefault
summary_new_account(E, user_id) ==
    LET account == AccountState(user_id)
    IN  [ engine |-> [E EXCEPT !.accounts = Put(@, user_id, account),
                               !.recent_paths =
                                   Put(@, user_id, recent_sequence(@, user_id))],
          result |-> [ frozen          |-> account.frozen,
                       active_sessions |-> DOMAIN account.sessions,
                       behavior        |-> volume_summary(E.profiles, user_id),
                       recent_sequence |-> recent_sequence(E.recent_paths, user_id) ] ]

\* RiskEngine.summary: the engine state after the call and the dictionary returned
summary(E, user_id) ==
    LET account == get_account(E.accounts, user_id)
    IN  [ engine |-> [E EXCEPT !.accounts = Put(@, user_id, account),
                               !.recent_paths =
                                   Put(@, user_id, recent_sequence(@, user_id))],
          result |-> [ frozen          |-> account.frozen,
                       active_sessions |-> DOMAIN account.sessions,
                       behavior        |-> volume_summary(E.profiles, user_id),
                       recent_sequence |-> recent_sequence(E.recent_paths, user_id) ] ]

----------------------------------------------------------------------------
(* Inputs *)

Change(previous_privileges, new_privileges) ==
    [ previous_roles |-> {}, new_roles |-> {},
      previous_privileges |-> previous_privileges,
      new_privileges |-> new_privileges ]

\* the privilege change of S1: {read} -> {read, write}
Escalation == Change({"read"}, {"read", "write"})

\* one request shape, no privilege change, no administrative call
BaseAlphabet ==
    [ name      |-> "base",
      config    |-> DefaultConfig,
      warm      |-> FALSE,
      served    |-> <<>>,
      slack     |-> 0,
      users     |-> {"u"},
      devices   |-> {"d"},
      ips       |-> {"1.1.1.1"},
      geos      |-> {"US"},
      agents    |-> {"a"},
      sessions  |-> {"s"},
      roles     |-> {{}},
      privileges|-> {{}},
      times     |-> {0},
      endpoints |-> {"/x"},
      statuses  |-> {200},
      latencies |-> {100},
      bytes_out |-> {0},
      services  |-> {"svc"},
      traces    |-> {"tr"},
      changes   |-> {NoChange},
      batches   |-> {},
      controls  |-> {} ]

BaselineEvent ==
    [ timestamp |-> 0, endpoint |-> "/x", method |-> "GET", status_code |-> 200,
      latency_ms |-> 100, bytes_in |-> 0, bytes_out |-> 0, service |-> "svc",
      trace_id |-> "tr" ]

\* S1: default config, one user, with or without a session id and a privilege
\* change, every administrative call
AlphabetS1 ==
    [BaseAlphabet EXCEPT
        !.name = "S1",
        !.sessions = {"s", NoSession},
        !.changes = {NoChange, Escalation},
        !.batches = {<<>>, << <<BaselineEvent, BaselineEvent>> >>},
        !.controls = {"freeze_account", "reset_sessions", "summary", "bootstrap_model"}]

\* S5: one endpoint, two latencies
AlphabetS5 ==
    [BaseAlphabet EXCEPT
        !.name = "S5",
        !.endpoints = {"/p"},
        !.latencies = {100, 1000}]

\* a two-second behavior window and event timestamps in any order
AlphabetWindow ==
    [BaseAlphabet EXCEPT
        !.name = "window",
        !.config = [DefaultConfig EXCEPT !.behavior_window = 2],
        !.times = {0, 2, 4}]

\* thresholds that the scores 40 and 75 meet exactly; two users
AlphabetLow ==
    [BaseAlphabet EXCEPT
        !.name = "low",
        !.config = [DefaultConfig EXCEPT !.high_risk_threshold = Pts(75),
                                         !.medium_risk_threshold = Pts(40)],
        !.slack = 3,
        !.users = {"u", "v"},
        !.sessions = {"s", NoSession},
        !.changes = {NoChange, Escalation},
        !.controls = {"freeze_account", "reset_sessions"}]

\* medium_risk_threshold above high_risk_threshold
AlphabetInverted ==
    [BaseAlphabet EXCEPT
        !.name = "inverted",
        !.config = [DefaultConfig EXCEPT !.high_risk_threshold = Pts(30),
                                         !.medium_risk_threshold = Pts(60)],
        !.changes = {NoChange, Escalation}]

\* two users and a given sequence_window
AlphabetSequence(w) ==
    [BaseAlphabet EXCEPT
        !.name = "sequence",
        !.config = [DefaultConfig EXCEPT !.sequence_window = w],
        !.users = {"u", "v"}]

\* two users, two endpoints, one privilege change, for the request threads;
\* warm: the engine has served WarmCall before the run
AlphabetThreads(warm) ==
    [BaseAlphabet EXCEPT
        !.name = "threads",
        !.warm = warm,
        !.users = {"u", "v"},
        !.endpoints = {"/a", "/b"},
        !.changes = {Escalation}]

\* the privilege change {read, write} -> {read}
Deescalation == Change({"read", "write"}, {"read"})

\* two devices, two services on one trace, a pivot depth and a drift threshold
\* of 2: several detectors fire in one call
AlphabetOrder ==
    [BaseAlphabet EXCEPT
        !.name = "order",
        !.config = [DefaultConfig EXCEPT !.pivot_depth_threshold = 2,
                                         !.privilege_drift_threshold = 2],
        !.slack = 3,
        !.devices = {"d", "e"},
        !.services = {"svc", "db"},
        !.changes = {NoChange, Escalation}]

\* two endpoints and a sequence window of 3
AlphabetPaths ==
    [BaseAlphabet EXCEPT
        !.name = "paths",
        !.config = [DefaultConfig EXCEPT !.sequence_window = 3],
        !.slack = 1,
        !.endpoints = {"/x", "/y"},
        !.changes = {NoChange, Escalation}]

\* two latencies and a sigma threshold of 1
AlphabetSigma ==
    [BaseAlphabet EXCEPT
        !.name = "sigma",
        !.config = [DefaultConfig EXCEPT !.timing_sigma_threshold = 1],
        !.latencies = {100, 1000}]

\* four users behind one ip
AlphabetGraph ==
    [BaseAlphabet EXCEPT
        !.name = "graph",
        !.slack = 2,
        !.users = {"u", "v", "w", "x"}]

\* two devices, a multi-actor window of 2 and identity timestamps in any order
AlphabetActors ==
    [BaseAlphabet EXCEPT
        !.name = "actors",
        !.config = [DefaultConfig EXCEPT !.multi_actor_window = 2],
        !.slack = 3,
        !.devices = {"d", "e"},
        !.times = {0, 2, 5}]

\* two users, the three kinds of privilege change, a drift threshold of 2 and
\* every administrative call
AlphabetHistory ==
    [BaseAlphabet EXCEPT
        !.name = "history",
        !.config = [DefaultConfig EXCEPT !.privilege_drift_threshold = 2],
        !.slack = 3,
        !.users = {"u", "v"},
        !.changes = {NoChange, Escalation, Deescalation},
        !.batches = {<< <<BaselineEvent, BaselineEvent>> >>},
        !.controls = {"freeze_account", "reset_sessions", "summary", "bootstrap_model"}]

\* one user, the default drift threshold of 3, four calls
AlphabetDrift ==
    [BaseAlphabet EXCEPT
        !.name = "drift",
        !.slack = 2,
        !.changes = {NoChange, Escalation, Deescalation},
        !.batches = {<< <<BaselineEvent, BaselineEvent>> >>},
        !.controls = {"freeze_account", "reset_sessions", "summary", "bootstrap_model"}]

\* the alphabets of the runs on the accounts
AccountAlphabets == {AlphabetHistory, AlphabetDrift}

\* one user on two devices, for the requests of POST /assess/async
AlphabetAsync ==
    [BaseAlphabet EXCEPT
        !.name = "async",
        !.devices = {"d", "e"}]

\* one user; the device and every identity field outside the fingerprint vary
AlphabetFields ==
    [BaseAlphabet EXCEPT
        !.name = "fields",
        !.slack = 4,
        !.devices = {"d", "e"},
        !.sessions = {"s", NoSession},
        !.roles = {{}, {"admin"}},
        !.privileges = {{}, {"read"}},
        !.times = {0, 5}]

\* two endpoints, a two-second behavior window and timestamps in any order:
\* trimming can make an endpoint dominate the window
AlphabetSkew ==
    [BaseAlphabet EXCEPT
        !.name = "skew",
        !.config = [DefaultConfig EXCEPT !.behavior_window = 2],
        !.slack = 2,
        !.endpoints = {"/x", "/y"},
        !.times = {0, 2, 4}]

\* a call of user_id from a device and an ip, on the one request shape
CallFrom(user_id, device_id, ip) ==
    [ identity |-> [ user_id |-> user_id, device_id |-> device_id, ip |-> ip,
                     geo |-> "US", user_agent |-> "a", session_id |-> "s",
                     roles |-> {}, privileges |-> {}, timestamp |-> 0 ],
      event    |-> BaselineEvent,
      privilege_change |-> NoChange ]

\* the engine has served user u on four devices behind one ip and users v, w
\* and x behind another; the run adds a fifth device and both ips
AlphabetSprawl ==
    [BaseAlphabet EXCEPT
        !.name = "sprawl",
        !.served = << CallFrom("u", "d", "1.1.1.1"), CallFrom("u", "d2", "1.1.1.1"),
                      CallFrom("u", "d3", "1.1.1.1"), CallFrom("u", "d4", "1.1.1.1"),
                      CallFrom("v", "d", "2.2.2.2"), CallFrom("w", "d", "2.2.2.2"),
                      CallFrom("x", "d", "2.2.2.2") >>,
        !.slack = -3,
        !.users = {"u", "v", "w", "x"},
        !.devices = {"d", "d5"},
        !.ips = {"1.1.1.1", "2.2.2.2"}]

\* event timestamps 0, 3 and 5 in any order inside the default window: the
\* request rate of a profile holding events falls and rises
AlphabetSurge ==
    [BaseAlphabet EXCEPT
        !.name = "surge",
        !.slack = 3,
        !.times = {0, 3, 5}]

\* two users on one trace id, two services, a pivot depth of 2 and every
\* administrative call
AlphabetPivot ==
    [BaseAlphabet EXCEPT
        !.name = "pivot",
        !.config = [DefaultConfig EXCEPT !.pivot_depth_threshold = 2],
        !.slack = 3,
        !.users = {"u", "v"},
        !.services = {"svc", "db"},
        !.batches = {<< <<BaselineEvent, BaselineEvent>> >>},
        !.controls = {"freeze_account", "reset_sessions", "summary", "bootstrap_model"}]

\* the alphabets of the runs that only assess events
DetectorAlphabets ==
    {AlphabetOrder, AlphabetPaths, AlphabetSigma, AlphabetGraph,
     AlphabetSequence(1), AlphabetSequence(2), AlphabetActors, AlphabetFields,
     AlphabetSkew, AlphabetSprawl, AlphabetSurge}

Alphabets ==
    {AlphabetS1, AlphabetS5, AlphabetWindow, AlphabetLow, AlphabetInverted}
    \cup {AlphabetSequence(w) : w \in {1, 2, 3, 4, 6, 8}}

Identities(A) ==
    { [ user_id |-> u, device_id |-> d, ip |-> i, geo |-> g, user_agent |-> ua,
        session_id |-> sid, roles |-> r, privileges |-> pr, timestamp |-> t ] :
      u \in A.users, d \in A.devices, i \in A.ips, g \in A.geos, ua \in A.agents,
      sid \in A.sessions, r \in A.roles, pr \in A.privileges, t \in A.times }

EventsAt(A, ts) ==
    { [ timestamp |-> ts, endpoint |-> e, method |-> "GET", status_code |-> sc,
        latency_ms |-> l, bytes_in |-> 0, bytes_out |-> b, service |-> sv,
        trace_id |-> tr ] :
      e \in A.endpoints, sc \in A.statuses, l \in A.latencies, b \in A.bytes_out,
      sv \in A.services, tr \in A.traces }

\* the request threads of the HTTP front end (api.py runs the synchronous
\* handler assess on a pool of threads, all sharing app.state.engine)
Threads == {"t1", "t2"}

\* a thread that is not inside assess_event
Idle == [pc |-> "idle"]

\* the call a warm engine has served: user "u" on endpoint "/a"
WarmCall ==
    [ identity |-> [ user_id |-> "u", device_id |-> "d", ip |-> "1.1.1.1",
                     geo |-> "US", user_agent |-> "a", session_id |-> "s",
                     roles |-> {}, privileges |-> {}, timestamp |-> 0 ],
      event    |-> [BaselineEvent EXCEPT !.endpoint = "/a"],
      privilege_change |-> NoChange ]

\* the engine after it has served a sequence of assess_event calls
RECURSIVE after_calls(_, _, _)
after_calls(E, cfg, served) ==
    IF served = <<>> THEN E
    ELSE after_calls(assess_event(E, cfg, Head(served).identity, Head(served).event,
                                  Head(served).privilege_change).engine,
                     cfg, Tail(served))

\* the engine a run starts from
Base(A) ==
    IF A.warm
    THEN assess_event(NewEngine, A.config, WarmCall.identity, WarmCall.event,
                      WarmCall.privilege_change).engine
    ELSE after_calls(NewEngine, A.config, A.served)

----------------------------------------------------------------------------
(* The state machine *)

\* the engine variables hold the engine state E
Holds(E) ==
    /\ accounts = E.accounts
    /\ recent_fingerprints = E.recent_fingerprints
    /\ profiles = E.profiles
    /\ transitions = E.transitions
    /\ recent_paths = E.recent_paths
    /\ stats = E.stats
    /\ traces = E.traces
    /\ user_to_ips = E.user_to_ips
    /\ user_to_devices = E.user_to_devices
    /\ ip_to_users = E.ip_to_users
    /\ predictor = E.predictor
    /\ recent_sequences = E.recent_sequences

\* an empty broker queue and an empty assessments collection
NoTasks == [queue |-> <<>>, issued |-> {}, store |-> EmptyMap, failed |-> {}]

\* a new engine, or a warm one, with the config and the inputs of an alphabet
InitWith(alphabets) ==
    /\ inputs \in alphabets
    /\ config = inputs.config
    /\ \E E \in {Base(inputs)} : Holds(E)
    /\ last = [op |-> "init"]
    /\ calls = [u \in inputs.users |->
                  Cardinality({i \in DOMAIN inputs.served :
                                  inputs.served[i].identity.user_id = u})]
    /\ flagged = {}
    /\ threads = [t \in Threads |-> Idle]
    /\ replica = [engine |-> Base(inputs), assessment |-> NoAssessment]
    /\ tasks = NoTasks

Init == InitWith(Alphabets)

Install(E) ==
    /\ accounts' = E.accounts
    /\ recent_fingerprints' = E.recent_fingerprints
    /\ profiles' = E.profiles
    /\ transitions' = E.transitions
    /\ recent_paths' = E.recent_paths
    /\ stats' = E.stats
    /\ traces' = E.traces
    /\ user_to_ips' = E.user_to_ips
    /\ user_to_devices' = E.user_to_devices
    /\ ip_to_users' = E.ip_to_users
    /\ predictor' = E.predictor
    /\ recent_sequences' = E.recent_sequences

TotalCalls == SumValues(calls)

\* a second engine that works on the timing table of the first (a table held
\* by the class, not by the instance)
engine_view_shared_stats(own, other) == [own EXCEPT !.stats = other.stats]

\* the engine has served a call of assess_event, with the outcome r
Served(identity, event, privilege_change, r) ==
    /\ Install(r.engine)
    /\ last' = [ op |-> "assess_event", user_id |-> identity.user_id,
                 identity |-> identity, event |-> event,
                 privilege_change |-> privilege_change,
                 assessment |-> r.assessment ]
    /\ flagged' = IF r.assessment.account_frozen
                  THEN flagged \cup {identity.user_id} ELSE flagged
    /\ calls' = [calls EXCEPT ![identity.user_id] = @ + 1]

AssessEvent(identity, event, privilege_change) ==
    /\ TotalCalls + inputs.slack < MaxCalls
    /\ \E r \in {assess_event(EngineState, config, identity, event, privilege_change)} :
           Served(identity, event, privilege_change, r)
    /\ UNCHANGED <<config, inputs, replica, tasks, threads>>

\* the tables a second engine works on: those its own constructor built
engine_view(own, other) == own

\* the same call made on the engine and then on the second engine
ReplayEvent(identity, event, privilege_change) ==
    /\ TotalCalls + inputs.slack < MaxCalls
    /\ \E r \in {assess_event(EngineState, config, identity, event, privilege_change)} :
           /\ Served(identity, event, privilege_change, r)
           /\ \E q \in {assess_event(engine_view(replica.engine, r.engine), config,
                                      identity, event, privilege_change)} :
                 replica' = q
    /\ UNCHANGED <<config, inputs, threads, tasks>>

FreezeAccount(user_id) ==
    /\ "freeze_account" \in inputs.controls
    /\ \E E \in {freeze_account(EngineState, user_id)} : Install(E)
    /\ last' = [op |-> "freeze_account", user_id |-> user_id]
    /\ flagged' = flagged \cup {user_id}
    /\ UNCHANGED <<config, inputs, replica, tasks, calls, threads>>

ResetSessions(user_id) ==
    /\ "reset_sessions" \in inputs.controls
    /\ \E E \in {reset_sessions(EngineState, user_id)} : Install(E)
    /\ last' = [op |-> "reset_sessions", user_id |-> user_id]
    /\ UNCHANGED <<config, inputs, replica, tasks, calls, flagged, threads>>

Summary(user_id) ==
    /\ "summary" \in inputs.controls
    /\ \E r \in {summary(EngineState, user_id)} :
           /\ Install(r.engine)
           /\ last' = [op |-> "summary", user_id |-> user_id, result |-> r.result]
    /\ UNCHANGED <<config, inputs, replica, tasks, calls, flagged, threads>>

BootstrapModel(baseline_sequences) ==
    /\ "bootstrap_model" \in inputs.controls
    /\ predictor.stats.count < MaxBaseline
    /\ \E E \in {bootstrap_model(EngineState, baseline_sequences)} : Install(E)
    /\ last' = [op |-> "bootstrap_model", batch |-> baseline_sequences]
    /\ UNCHANGED <<config, inputs, replica, tasks, calls, flagged, threads>>

Next ==
    \/ \E identity \in Identities(inputs), privilege_change \in inputs.changes :
         \E event \in EventsAt(inputs, identity.timestamp) :
            AssessEvent(identity, event, privilege_change)
    \/ \E user_id \in inputs.users : FreezeAccount(user_id)
    \/ \E user_id \in inputs.users : ResetSessions(user_id)
    \/ \E user_id \in inputs.users : Summary(user_id)
    \/ \E batch \in inputs.batches : BootstrapModel(batch)

Spec == Init /\ [][Next]_vars

\* runs made of assess_event calls only, on the detector alphabets, each call
\* made on two engines
DetectorInit == InitWith(DetectorAlphabets)

DetectorNext ==
    \E identity \in Identities(inputs), privilege_change \in inputs.changes :
       \E event \in EventsAt(inputs, identity.timestamp) :
          ReplayEvent(identity, event, privilege_change)

DetectorSpec == DetectorInit /\ [][DetectorNext]_vars

\* runs of every operation on the account alphabets
AccountInit == InitWith(AccountAlphabets)

AccountSpec == AccountInit /\ [][Next]_vars

----------------------------------------------------------------------------
(* The asynchronous path: POST /assess/async puts a task on the broker queue,
   the worker process runs process_assessment on its own engine (the
   module-level _ENGINE of tasks.py, held here by the engine variables) and
   GET /tasks/{task_id} reads the assessments collection. *)

\* str(uuid4()): the ids a run can issue
TaskIds == 1..MaxTasks

\* a datetime as pydantic writes it in model_dump(mode="json"): an ISO 8601 str
isoformat(t) == "2024-01-01T00:00:0" \o ToString(t)

\* IdentityPayload / ActivityPayload .model_dump(mode="json")
model_dump_json(payload) == [payload EXCEPT !.timestamp = isoformat(@)]

\* tasks._to_identity: timestamp=payload.get("timestamp"), the str as it is
tasks_to_identity(payload) == payload

\* tasks._to_activity: timestamp=payload.get("timestamp"), the str as it is
tasks_to_activity(payload) == payload

\* RiskEngine.assess_event on an identity and an event whose timestamps are
\* str.  The session is stored and the fingerprint recorded; the first
\* subtraction of two timestamps then raises TypeError (str - str):
\*   fingerprinting.py:34    identity.timestamp - previous_ts, evaluated when
\*                           the previous fingerprint differs
\*   behavior_analyzer.py:31 events[-1].timestamp - events[0].timestamp, in
\*                           request_rate() of a profile that holds events
\*   behavior_analyzer.py:22 now - events[0].timestamp, in _trim after observe
\*                           has appended the event to an empty profile
assess_event_str(E, cfg, identity, event, privilege_change) ==
    LET user    == identity.user_id
        fp      == fingerprint(identity)
        E1      == [E EXCEPT
                      !.accounts = Put(@, user,
                          upsert_session(get_account(@, user), identity)),
                      !.recent_fingerprints = Put(@, user, <<fp, identity.timestamp>>)]
        profile == Get(E.profiles, user, BehaviorProfile0)
    IN  IF user \in DOMAIN E.recent_fingerprints /\ E.recent_fingerprints[user][1] # fp
        THEN [engine |-> E1, raised |-> "fingerprinting.py:34", assessment |-> NoAssessment]
        ELSE IF profile.events # <<>>
        THEN [engine |-> [E1 EXCEPT !.profiles = Put(@, user, profile)],
              raised |-> "behavior_analyzer.py:31", assessment |-> NoAssessment]
        ELSE [engine |-> [E1 EXCEPT !.profiles = Put(@, user,
                            [events |-> Append(profile.events, event),
                             endpoint_counter |->
                                Put(profile.endpoint_counter, event.endpoint,
                                    Get(profile.endpoint_counter, event.endpoint, 0) + 1)])],
              raised |-> "behavior_analyzer.py:22", assessment |-> NoAssessment]

\* AssessmentRepository.save_assessment: replace_one(..., upsert=True)
save_assessment(store, task_id, identity, event, assessment, privilege_change) ==
    Put(store, task_id,
        [task_id |-> task_id, identity |-> identity, event |-> event,
         privilege_change |-> privilege_change, assessment |-> assessment])

\* the response of GET /tasks/{task_id}
task_status(store, task_id) ==
    IF task_id \notin DOMAIN store
    THEN [task_id |-> task_id, status |-> "pending", assessment |-> NoAssessment]
    ELSE [task_id |-> task_id, status |-> "completed",
          assessment |-> store[task_id].assessment]

\* POST /assess/async: the payloads are dumped to JSON and enqueue_assessment
\* puts process_assessment(task_id, ...) on the queue under a fresh task_id
QueueAssessment(task_id, identity, event, privilege_change) ==
    /\ task_id \notin tasks.issued
    /\ tasks' = [tasks EXCEPT
                   !.issued = @ \cup {task_id},
                   !.queue  = Append(@, [task_id |-> task_id,
                                         identity |-> model_dump_json(identity),
                                         event |-> model_dump_json(event),
                                         privilege_change |-> privilege_change])]
    /\ last' = [op |-> "queue_assessment", task_id |-> task_id, status |-> "queued"]
    /\ UNCHANGED <<config, inputs, engine, calls, flagged, threads, replica>>

\* the worker takes the next task and runs process_assessment: the record is
\* saved when assess_event returns; when it raises, the task fails (there is no
\* retry) and nothing is saved
ProcessAssessment ==
    /\ tasks.queue # <<>>
    /\ \E task \in {Head(tasks.queue)} :
       \E r \in {assess_event_str(EngineState, config,
                                  tasks_to_identity(task.identity),
                                  tasks_to_activity(task.event),
                                  task.privilege_change)} :
          /\ Install(r.engine)
          /\ tasks' = [tasks EXCEPT
                         !.queue  = Tail(@),
                         !.store  = IF r.raised = None
                                    THEN save_assessment(@, task.task_id, task.identity,
                                             task.event, r.assessment,
                                             task.privilege_change)
                                    ELSE @,
                         !.failed = IF r.raised = None THEN @ ELSE @ \cup {task.task_id}]
          /\ last' = [op |-> "process_assessment", task_id |-> task.task_id,
                      raised |-> r.raised]
    /\ UNCHANGED <<config, inputs, calls, flagged, threads, replica>>

\* GET /tasks/{task_id}
TaskStatus(task_id) ==
    /\ last' = [op |-> "task_status", result |-> task_status(tasks.store, task_id)]
    /\ UNCHANGED <<config, inputs, engine, calls, flagged, threads, replica, tasks>>

AsyncInit == InitWith({AlphabetAsync})

AsyncNext ==
    \/ \E task_id \in TaskIds, identity \in Identities(inputs),
          privilege_change \in inputs.changes :
          \E event \in EventsAt(inputs, identity.timestamp) :
             QueueAssessment(task_id, identity, event, privilege_change)
    \/ ProcessAssessment
    \/ \E task_id \in TaskIds : TaskStatus(task_id)

\* the queue delivers: a task on the queue is eventually taken by the worker
AsyncSpec == AsyncInit /\ [][AsyncNext]_vars /\ WF_vars(ProcessAssessment)

----------------------------------------------------------------------------
(* assess_event on events whose timestamps are datetimes with or without a
   UTC offset.  The HTTP adapter accepts both ("2024-01-01T00:00:00" and
   "2024-01-01T00:00:00Z" are valid datetime fields); datetime.__sub__ raises
   TypeError when one operand is offset-naive and the other offset-aware.
   The identities of these runs are offset-naive. *)

\* tzinfo of an event timestamp: None or timezone.utc
TzInfos == {"naive", "utc"}

\* the events of an alphabet at a timestamp, with and without an offset
EventsTz(A, ts) ==
    { [ timestamp |-> ts, tzinfo |-> z, endpoint |-> e, method |-> "GET",
        status_code |-> sc, latency_ms |-> l, bytes_in |-> 0, bytes_out |-> b,
        service |-> sv, trace_id |-> tr ] :
      z \in TzInfos, e \in A.endpoints, sc \in A.statuses, l \in A.latencies,
      b \in A.bytes_out, sv \in A.services, tr \in A.traces }

\* BehaviorProfile._trim with the subtraction `now - self.events[0].timestamp`
\* checked: the profile when the loop ends or raises, and whether it raised
RECURSIVE trim_tz(_, _, _)
trim_tz(profile, now, window) ==
    IF profile.events = <<>>
    THEN [profile |-> profile, raised |-> None]
    ELSE IF Head(profile.events).tzinfo # now.tzinfo
    THEN [profile |-> profile, raised |-> "behavior_analyzer.py:22"]
    ELSE IF now.timestamp - Head(profile.events).timestamp > window
    THEN LET old == Head(profile.events)
             n   == Get(profile.endpoint_counter, old.endpoint, 0) - 1
             c   == IF n <= 0
                    THEN [k \in (DOMAIN profile.endpoint_counter) \ {old.endpoint}
                            |-> profile.endpoint_counter[k]]
                    ELSE Put(profile.endpoint_counter, old.endpoint, n)
         IN  trim_tz([events |-> Tail(profile.events), endpoint_counter |-> c],
                     now, window)
    ELSE [profile |-> profile, raised |-> None]

\* RiskEngine.assess_event with the timestamp subtractions of the behavior
\* analyzer checked: request_rate() before the event is observed
\* (behavior_analyzer.py:31) and _trim after it is appended (line 22).  When
\* one raises, the session and the fingerprint of the call are already stored
\* and no assessment is returned.
assess_event_tz(E, cfg, identity, event, privilege_change) ==
    LET user    == identity.user_id
        E1      == [E EXCEPT
                      !.accounts = Put(@, user,
                          upsert_session(get_account(@, user), identity)),
                      !.recent_fingerprints =
                          detect_multi_actor(@, identity, cfg.multi_actor_window).recent]
        profile == Get(E.profiles, user, BehaviorProfile0)
        ev      == profile.events
        observed == trim_tz([events |-> Append(ev, event),
                             endpoint_counter |->
                                Put(profile.endpoint_counter, event.endpoint,
                                    Get(profile.endpoint_counter, event.endpoint, 0) + 1)],
                            event, cfg.behavior_window)
    IN  IF ev # <<>> /\ ev[Len(ev)].tzinfo # ev[1].tzinfo
        THEN [engine |-> E1, raised |-> "behavior_analyzer.py:31",
              assessment |-> NoAssessment]
        ELSE IF observed.raised # None
        THEN [engine |-> [E1 EXCEPT !.profiles = Put(@, user, observed.profile)],
              raised |-> observed.raised, assessment |-> NoAssessment]
        ELSE [raised |-> None]
             @@ assess_event(E, cfg, identity, event, privilege_change)

\* a call of assess_event that returns an assessment or raises
AssessEventTz(identity, event, privilege_change) ==
    /\ TotalCalls + inputs.slack < MaxCalls
    /\ \E r \in {assess_event_tz(EngineState, config, identity, event,
                                  privilege_change)} :
          /\ Install(r.engine)
          /\ last' = [ op |-> "assess_event", user_id |-> identity.user_id,
                       identity |-> identity, event |-> event,
                       privilege_change |-> privilege_change,
                       raised |-> r.raised, assessment |-> r.assessment ]
          /\ flagged' = IF r.raised = None /\ r.assessment.account_frozen
                        THEN flagged \cup {identity.user_id} ELSE flagged
    /\ calls' = [calls EXCEPT ![identity.user_id] = @ + 1]
    /\ UNCHANGED <<config, inputs, replica, threads, tasks>>

\* two users, two endpoints, event timestamps 0 and 1
AlphabetTz ==
    [BaseAlphabet EXCEPT
        !.name = "tz",
        !.slack = 3,
        !.users = {"u", "v"},
        !.endpoints = {"/x", "/y"}]

TzInit == InitWith({AlphabetTz})

TzNext ==
    \E identity \in Identities(inputs), privilege_change \in inputs.changes :
       \E ts \in {0, 1} : \E event \in EventsTz(inputs, ts) :
          AssessEventTz(identity, event, privilege_change)

TzSpec == TzInit /\ [][TzNext]_vars

----------------------------------------------------------------------------
(* assess_event on latencies that are not numbers.  latency_ms is a float
   that nothing validates (models.py:26, api.py:31): float("nan") is a value
   of the field, and so is the inf that the sum of finite latencies overflows
   to in _featurize.  An event carries the flag latency_nan; when it is set
   the latency is nan and the number in latency_ms is not read. *)

\* float("nan"), and every float computed from it by +, -, *, / and abs
NaN == <<0, 0>>

\* the events of an alphabet at a timestamp, with a latency or with nan
EventsNan(A, ts) ==
    { [ timestamp |-> ts, endpoint |-> e, method |-> "GET", status_code |-> sc,
        latency_ms |-> l, latency_nan |-> n, bytes_in |-> 0, bytes_out |-> b,
        service |-> sv, trace_id |-> tr ] :
      e \in A.endpoints, sc \in A.statuses, l \in A.latencies, n \in BOOLEAN,
      b \in A.bytes_out, sv \in A.services, tr \in A.traces }

\* sum(event.latency_ms for event in sequence) is nan
AnyNan(sequence) == \E i \in DOMAIN sequence : sequence[i].latency_nan

\* TimingProfiler.assess: TimingStats.update with a nan value or a nan mean
\* leaves mean and m2 nan, and `deviation > ...` is false on a nan deviation
TimingProfiler_assess_nan(st, event, sigma_threshold) ==
    LET s1 == Get(st, event.endpoint, TimingStats0)
    IN  IF event.latency_nan \/ s1.mean = NaN
        THEN [stats |-> Put(st, event.endpoint,
                            [count |-> s1.count + 1, mean |-> NaN, m2 |-> NaN]),
              signals |-> <<>>]
        ELSE TimingProfiler_assess(st, event, sigma_threshold)

\* AttackSequencePredictor.update_baseline on an untrained predictor (count 0,
\* no mean yet): the fifth feature, avg_latency, is nan when a latency is
update_baseline_nan(pred, sequence) ==
    LET p == update_baseline(pred, sequence)
    IN  IF AnyNan(sequence)
        THEN [p EXCEPT !.stats.mean[5] = NaN, !.stats.m2[5] = NaN]
        ELSE p

\* RiskEngine._update_sequence
update_sequence_nan(queues, pred, user_id, event, sequence_window) ==
    LET appended == Append(Get(queues, user_id, <<>>), event)
        queue    == IF Len(appended) > sequence_window THEN Tail(appended) ELSE appended
    IN  [recent_sequences |-> Put(queues, user_id, queue),
         predictor |-> IF bootstrap_due(pred, queue, sequence_window)
                       THEN update_baseline_nan(pred, queue) ELSE pred,
         queue |-> queue]

\* AttackSequencePredictor.score: with a nan avg_latency or a nan mean the
\* z-score is nan, max(nan - threshold, 0.0) is nan, the budget is nan,
\* `anomaly_budget <= 0` is false and min(nan * multiplier, 30.0) is nan
AttackSequencePredictor_score_nan(pred, sequence, contamination, score_multiplier) ==
    IF ~pred.is_trained THEN <<>>
    ELSE IF AnyNan(sequence) \/ pred.stats.mean[5] = NaN
    THEN <<RiskSignal("ml_attack_prediction", NaN)>>
    ELSE AttackSequencePredictor_score(pred, sequence, contamination, score_multiplier)

\* assess_event, steps 1 to 3
run_detectors_nan(E, cfg, identity, event, privilege_change) ==
    [ fp |-> detect_multi_actor(E.recent_fingerprints, identity, cfg.multi_actor_window),
      bh |-> BehaviorAnomalyDetector_assess(E.profiles, identity.user_id, event,
                                            cfg.behavior_window),
      sq |-> APISequenceModel_score(E.transitions, E.recent_paths, identity.user_id,
                                    event, cfg.sequence_window),
      tm |-> TimingProfiler_assess_nan(E.stats, event, cfg.timing_sigma_threshold),
      pv |-> PrivilegeMonitor_assess(
                 upsert_session(get_account(E.accounts, identity.user_id), identity),
                 privilege_change, cfg.privilege_drift_threshold),
      pt |-> PivotTracker_assess(E.traces, event, cfg.pivot_depth_threshold),
      gr |-> GraphModel_assess(E.user_to_ips, E.user_to_devices, E.ip_to_users,
                               identity.user_id, identity.ip, identity.device_id),
      us |-> update_sequence_nan(E.recent_sequences, E.predictor, identity.user_id,
                                 event, cfg.sequence_window) ]

\* RiskEngine.assess_event.  A nan score makes the total nan, and
\* evaluate_action answers "monitor": both of its comparisons are false
score_and_act_nan(E, cfg, identity, d, others, ml) ==
    IF d.us.predictor.is_trained
       /\ (AnyNan(d.us.queue) \/ d.us.predictor.stats.mean[5] = NaN)
    THEN [ engine |-> conclude(E, cfg, identity, d, others, "monitor").engine,
           assessment |-> [ total_score         |-> NaN,
                            signals             |-> others \o ml,
                            action              |-> "monitor",
                            account_frozen      |-> FALSE,
                            session_invalidated |-> FALSE ] ]
    ELSE score_and_act(E, cfg, identity, d, others \o ml)

aggregate_nan(E, cfg, identity, d) ==
    score_and_act_nan(E, cfg, identity, d,
        d.fp.signals \o d.bh.signals \o d.sq.signals \o d.tm.signals
        \o d.pv.signals \o d.pt.signals \o d.gr.signals,
        AttackSequencePredictor_score_nan(d.us.predictor, d.us.queue,
            cfg.attack_prediction_contamination,
            cfg.attack_prediction_score_multiplier))

assess_event_nan(E, cfg, identity, event, privilege_change) ==
    aggregate_nan(E, cfg, identity,
                  run_detectors_nan(E, cfg, identity, event, privilege_change))

AssessEventNan(identity, event, privilege_change) ==
    /\ TotalCalls + inputs.slack < MaxCalls
    /\ \E r \in {assess_event_nan(EngineState, config, identity, event,
                                   privilege_change)} :
          Served(identity, event, privilege_change, r)
    /\ UNCHANGED <<config, inputs, replica, threads, tasks>>

\* two users and a sequence_window of 6: the third event of a user feeds the
\* self-bootstrap sample
AlphabetNan ==
    [BaseAlphabet EXCEPT
        !.name = "nan",
        !.config = [DefaultConfig EXCEPT !.sequence_window = 6],
        !.slack = 2,
        !.users = {"u", "v"}]

NanNext ==
    \E identity \in Identities(inputs), privilege_change \in inputs.changes :
       \E event \in EventsNan(inputs, identity.timestamp) :
          AssessEventNan(identity, event, privilege_change)

NanSpec == InitWith({AlphabetNan}) /\ [][NanNext]_vars

\* freeze_account or reset_sessions made on the engine and on the second engine
ReplayControl(op, user_id) ==
    /\ op \in inputs.controls
    /\ \E E \in {IF op = "freeze_account" THEN freeze_account(EngineState, user_id)
                  ELSE reset_sessions(EngineState, user_id)} : Install(E)
    /\ replica' = [replica EXCEPT
                     !.engine = IF op = "freeze_account"
                                THEN freeze_account(@, user_id)
                                ELSE reset_sessions(@, user_id)]
    /\ last' = [op |-> op, user_id |-> user_id]
    /\ flagged' = IF op = "freeze_account" THEN flagged \cup {user_id} ELSE flagged
    /\ UNCHANGED <<config, inputs, calls, threads, tasks>>

\* summary made on the engine and on the second engine
ReplaySummary(user_id) ==
    /\ \E r \in {summary(EngineState, user_id)} :
          /\ Install(r.engine)
          /\ last' = [op |-> "summary", user_id |-> user_id, result |-> r.result,
                      replayed |-> TRUE]
    /\ \E q \in {summary(replica.engine, user_id)} :
          replica' = [engine |-> q.engine, assessment |-> q.result]
    /\ UNCHANGED <<config, inputs, calls, flagged, threads, tasks>>

\* two users, two endpoints, freeze_account, reset_sessions and summary
AlphabetSummary ==
    [BaseAlphabet EXCEPT
        !.name = "summary",
        !.slack = 4,
        !.users = {"u", "v"},
        !.endpoints = {"/x", "/y"},
        !.controls = {"freeze_account", "reset_sessions", "summary"}]

\* runs in which the second engine serves every call but the summary calls of
\* Summary: its run is the engine's run with those calls left out
SummaryInit == InitWith({AlphabetSummary})

SummaryNext ==
    \/ \E identity \in Identities(inputs), privilege_change \in inputs.changes :
         \E event \in EventsAt(inputs, identity.timestamp) :
            ReplayEvent(identity, event, privilege_change)
    \/ \E op \in {"freeze_account", "reset_sessions"}, user_id \in inputs.users :
         ReplayControl(op, user_id)
    \/ \E user_id \in inputs.users : Summary(user_id)
    \/ \E user_id \in inputs.users : ReplaySummary(user_id)

SummarySpec == SummaryInit /\ [][SummaryNext]_vars

\* two users with and without a session id, escalations, thresholds 75 and 40
\* that the scores of a first call meet, and freeze_account
AlphabetFrozen ==
    [BaseAlphabet EXCEPT
        !.name = "frozen",
        !.config = [DefaultConfig EXCEPT !.high_risk_threshold = Pts(75),
                                         !.medium_risk_threshold = Pts(40)],
        !.slack = 3,
        !.users = {"u", "v"},
        !.sessions = {"s", NoSession},
        !.changes = {NoChange, Escalation},
        !.controls = {"freeze_account"}]

\* runs in which the second engine serves every assess_event call and none
\* of the freeze_account calls: the two engines differ in frozen flags only
FrozenNext ==
    \/ \E identity \in Identities(inputs), privilege_change \in inputs.changes :
         \E event \in EventsAt(inputs, identity.timestamp) :
            ReplayEvent(identity, event, privilege_change)
    \/ \E user_id \in inputs.users : FreezeAccount(user_id)

FrozenSpec == InitWith({AlphabetFrozen}) /\ [][FrozenNext]_vars

\* two users, each on the session id "s", at timestamps 0 and 5, a medium
\* threshold of 40 that the rate anomaly of a first call meets, and
\* reset_sessions
AlphabetSessions ==
    [BaseAlphabet EXCEPT
        !.name = "sessions",
        !.config = [DefaultConfig EXCEPT !.medium_risk_threshold = Pts(40)],
        !.slack = 2,
        !.users = {"u", "v"},
        !.times = {0, 5},
        !.controls = {"reset_sessions"}]

SessionNext ==
    \/ \E identity \in Identities(inputs), privilege_change \in inputs.changes :
         \E event \in EventsAt(inputs, identity.timestamp) :
            AssessEvent(identity, event, privilege_change)
    \/ \E user_id \in inputs.users : ResetSessions(user_id)

SessionSpec == InitWith({AlphabetSessions}) /\ [][SessionNext]_vars

\* runs of every operation on the pivot alphabet
PivotInit == InitWith({AlphabetPivot})

PivotSpec == PivotInit /\ [][Next]_vars

----------------------------------------------------------------------------
(* assess_event on concurrent request threads.  The code takes no lock: a
   thread may be preempted between any two steps below.  A step is one
   detector call of assess_event, except that the two read-modify-write
   statements of the process-wide tables, transitions[prev][endpoint] += 1 and
   TimingStats.count += 1, are split at the point between their load and
   their store. *)

Thread(t) == threads[t]

User(t) == threads[t].identity.user_id

InFlight(t) == threads[t].pc \notin {"idle", "done"}

\* thread t moves to pc, having appended signals to its list
Advance(t, pc, signals) ==
    threads' = [threads EXCEPT ![t].pc = pc, ![t].signals = @ \o signals]

\* thread t moves to pc with the value it loaded
AdvanceLoaded(t, pc, signals, loaded) ==
    threads' = [threads EXCEPT ![t].pc = pc, ![t].signals = @ \o signals,
                               ![t].loaded = loaded]

\* assess_event: _get_account and account.update_session
Begin(t, identity, event, privilege_change) ==
    /\ threads[t].pc = "idle"
    /\ Install([EngineState EXCEPT !.accounts =
                   Put(@, identity.user_id,
                       upsert_session(get_account(@, identity.user_id), identity))])
    /\ threads' = [threads EXCEPT ![t] =
                     [ pc |-> "fingerprint", identity |-> identity, event |-> event,
                       privilege_change |-> privilege_change, signals |-> <<>>,
                       loaded |-> 0, assessment |-> None,
                       after |-> {s \in Threads : threads[s].pc = "done"} ]]
    /\ UNCHANGED <<config, inputs, replica, tasks, last, calls, flagged>>

\* fingerprinter.detect_multi_actor(identity)
DetectMultiActor(t) ==
    /\ threads[t].pc = "fingerprint"
    /\ \E r \in {detect_multi_actor(recent_fingerprints, threads[t].identity,
                                     config.multi_actor_window)} :
          /\ Install([EngineState EXCEPT !.recent_fingerprints = r.recent])
          /\ Advance(t, "behavior", r.signals)
    /\ UNCHANGED <<config, inputs, replica, tasks, last, calls, flagged>>

\* behavior.assess(user_id, event)
BehaviorAssess(t) ==
    /\ threads[t].pc = "behavior"
    /\ \E r \in {BehaviorAnomalyDetector_assess(profiles, User(t), threads[t].event,
                                                 config.behavior_window)} :
          /\ Install([EngineState EXCEPT !.profiles = r.profiles])
          /\ Advance(t, "sequence", r.signals)
    /\ UNCHANGED <<config, inputs, replica, tasks, last, calls, flagged>>

\* sequence_model.score up to the load inside observe: the probability is
\* read, then observe reads path[-1] and loads the transition count
SequenceScore(t) ==
    /\ threads[t].pc = "sequence"
    /\ AdvanceLoaded(t, "observe",
          APISequenceModel_score(transitions, recent_paths, User(t), threads[t].event,
                                 config.sequence_window).signals,
          observe_load(transitions, recent_paths, User(t), threads[t].event))
    /\ UNCHANGED <<engine, config, inputs, replica, tasks, last, calls, flagged>>

\* observe from the store on
Observe(t) ==
    /\ threads[t].pc = "observe"
    /\ \E r \in {observe_store(transitions, recent_paths, User(t), threads[t].event,
                                config.sequence_window, threads[t].loaded)} :
          Install([EngineState EXCEPT !.transitions = r.transitions,
                                      !.recent_paths = r.recent_paths])
    /\ Advance(t, "timing", <<>>)
    /\ UNCHANGED <<config, inputs, replica, tasks, last, calls, flagged>>

\* timing.assess up to the load of stats.count in self.count += 1
TimingLoad(t) ==
    /\ threads[t].pc = "timing"
    /\ AdvanceLoaded(t, "timing_update", <<>>,
          Get(stats, threads[t].event.endpoint, TimingStats0).count)
    /\ UNCHANGED <<engine, config, inputs, replica, tasks, last, calls, flagged>>

\* timing.assess from the store of stats.count on
TimingUpdate(t) ==
    /\ threads[t].pc = "timing_update"
    /\ \E s2 \in {TimingStats_store(Get(stats, threads[t].event.endpoint, TimingStats0),
                                     threads[t].loaded + 1,
                                     threads[t].event.latency_ms)} :
          /\ Install([EngineState EXCEPT !.stats =
                         Put(@, threads[t].event.endpoint, s2)])
          /\ Advance(t, "privilege",
                     TimingProfiler_test(s2, threads[t].event,
                                         config.timing_sigma_threshold))
    /\ UNCHANGED <<config, inputs, replica, tasks, last, calls, flagged>>

\* privileges.assess(account, privilege_change)
PrivilegeAssess(t) ==
    /\ threads[t].pc = "privilege"
    /\ \E r \in {PrivilegeMonitor_assess(get_account(accounts, User(t)),
                                          threads[t].privilege_change,
                                          config.privilege_drift_threshold)} :
          /\ Install([EngineState EXCEPT !.accounts = Put(@, User(t), r.account)])
          /\ Advance(t, "pivot", r.signals)
    /\ UNCHANGED <<config, inputs, replica, tasks, last, calls, flagged>>

\* pivots.assess(event)
PivotAssess(t) ==
    /\ threads[t].pc = "pivot"
    /\ \E r \in {PivotTracker_assess(traces, threads[t].event,
                                      config.pivot_depth_threshold)} :
          /\ Install([EngineState EXCEPT !.traces = r.traces])
          /\ Advance(t, "graph", r.signals)
    /\ UNCHANGED <<config, inputs, replica, tasks, last, calls, flagged>>

\* graph.assess(user_id, ip, device_id)
GraphAssess(t) ==
    /\ threads[t].pc = "graph"
    /\ \E r \in {GraphModel_assess(user_to_ips, user_to_devices, ip_to_users, User(t),
                                    threads[t].identity.ip,
                                    threads[t].identity.device_id)} :
          /\ Install([EngineState EXCEPT !.user_to_ips = r.user_to_ips,
                                         !.user_to_devices = r.user_to_devices,
                                         !.ip_to_users = r.ip_to_users])
          /\ Advance(t, "predict", r.signals)
    /\ UNCHANGED <<config, inputs, replica, tasks, last, calls, flagged>>

\* _update_sequence(user_id, event) and attack_predictor.score(sequence)
Predict(t) ==
    /\ threads[t].pc = "predict"
    /\ \E r \in {update_sequence(recent_sequences, predictor, User(t), threads[t].event,
                                  config.sequence_window)} :
          /\ Install([EngineState EXCEPT !.recent_sequences = r.recent_sequences,
                                         !.predictor = r.predictor])
          /\ Advance(t, "conclude",
                     AttackSequencePredictor_score(r.predictor, r.queue,
                         config.attack_prediction_contamination,
                         config.attack_prediction_score_multiplier))
    /\ UNCHANGED <<config, inputs, replica, tasks, last, calls, flagged>>

\* total_score, evaluate_action, the side effects on the account, return
Conclude(t) ==
    /\ threads[t].pc = "conclude"
    /\ \E action \in {evaluate_action(config, total_of(threads[t].signals))} :
          /\ Install([EngineState EXCEPT !.accounts =
                         Put(@, User(t),
                             apply_action(get_account(@, User(t)), action,
                                          threads[t].identity))])
          /\ threads' = [threads EXCEPT ![t].pc = "done",
                                        ![t].assessment =
                                            Assessment(threads[t].signals, action)]
          /\ last' = [ op |-> "assess_event", user_id |-> User(t),
                       identity |-> threads[t].identity, event |-> threads[t].event,
                       privilege_change |-> threads[t].privilege_change,
                       assessment |-> Assessment(threads[t].signals, action) ]
          /\ flagged' = IF action = "freeze_account"
                        THEN flagged \cup {User(t)} ELSE flagged
    /\ calls' = [calls EXCEPT ![User(t)] = @ + 1]
    /\ UNCHANGED <<config, inputs, replica, tasks>>

ConcInit ==
    /\ inputs \in {AlphabetThreads(warm) : warm \in BOOLEAN}
    /\ config = inputs.config
    /\ \E E \in {Base(inputs)} : Holds(E)
    /\ last = [op |-> "init"]
    /\ calls = [u \in inputs.users |-> 0]
    /\ flagged = {}
    /\ threads = [t \in Threads |-> Idle]
    /\ replica = [engine |-> Base(inputs), assessment |-> NoAssessment]
    /\ tasks = NoTasks

ConcNext ==
    \/ \E t \in Threads :
         \E identity \in Identities(inputs), privilege_change \in inputs.changes :
            \E event \in EventsAt(inputs, identity.timestamp) :
               Begin(t, identity, event, privilege_change)
    \/ \E t \in Threads : DetectMultiActor(t)
    \/ \E t \in Threads : BehaviorAssess(t)
    \/ \E t \in Threads : SequenceScore(t)
    \/ \E t \in Threads : Observe(t)
    \/ \E t \in Threads : TimingLoad(t)
    \/ \E t \in Threads : TimingUpdate(t)
    \/ \E t \in Threads : PrivilegeAssess(t)
    \/ \E t \in Threads : PivotAssess(t)
    \/ \E t \in Threads : GraphAssess(t)
    \/ \E t \in Threads : Predict(t)
    \/ \E t \in Threads : Conclude(t)

ConcSpec == ConcInit /\ [][ConcNext]_vars

----------------------------------------------------------------------------
(* Properties *)

IsAssessment == last.op = "assess_event"

SignalNames(assessment) == {assessment.signals[i].name : i \in DOMAIN assessment.signals}

HeldEvents(user_id) == Get(profiles, user_id, BehaviorProfile0).events

Sessions(user_id) == DOMAIN get_account(accounts, user_id).sessions

\* C1 -- Monotonic freeze: for every user an assessment reported frozen
\* (account_frozen = true) or freeze_account froze, summary(user).frozen is true
\* in every later state, whatever calls followed.
C1_MonotonicFreeze ==
    \A u \in flagged : summary(EngineState, u).result.frozen

\* a flagged user was assessed again, without a new freeze, or had the sessions reset
C1_Witness ==
    \E u \in flagged :
        \/ /\ IsAssessment /\ last.user_id = u
           /\ ~last.assessment.account_frozen
        \/ last.op = "reset_sessions" /\ last.user_id = u /\ calls[u] > 0

\* C2 -- Action selection: in every assessment, action is freeze_account iff
\* total_score >= high_risk_threshold, force_logout iff medium_risk_threshold <=
\* total_score < high_risk_threshold, and monitor otherwise.
C2_ActionSelection ==
    IsAssessment =>
        LET a == last.assessment
            high   == a.total_score >= config.high_risk_threshold
            medium == a.total_score >= config.medium_risk_threshold /\ ~high
        IN  /\ (a.action = "freeze_account") <=> high
            /\ (a.action = "force_logout") <=> medium
            /\ (a.action = "monitor") <=> (~high /\ ~medium)
            /\ a.action \in {"freeze_account", "force_logout", "monitor"}

\* an assessment whose total_score meets high_risk_threshold exactly
C2_Witness ==
    /\ IsAssessment
    /\ last.assessment.total_score = config.high_risk_threshold
    /\ last.assessment.action = "freeze_account"

\* the call of scenario S1
IsS1Call(call) ==
    /\ call.op = "assess_event"
    /\ call.identity = [ user_id |-> "u", device_id |-> "d", ip |-> "1.1.1.1",
                         geo |-> "US", user_agent |-> "a", session_id |-> "s",
                         roles |-> {}, privileges |-> {}, timestamp |-> 0 ]
    /\ call.event = [ timestamp |-> 0, endpoint |-> "/x", method |-> "GET",
                      status_code |-> 200, latency_ms |-> 100, bytes_in |-> 0,
                      bytes_out |-> 0, service |-> "svc", trace_id |-> "tr" ]
    /\ call.privilege_change = Escalation

\* C5 as stated -- Scenario S1: on a fresh engine with default config the call
\* returns exactly one signal, privilege_escalation with score 35, total_score 35
\* and action monitor.
C5_Original ==
    [][ (EngineState = NewEngine /\ config = DefaultConfig /\ IsS1Call(last'))
        => /\ last'.assessment.signals = <<RiskSignal("privilege_escalation", Pts(35))>>
           /\ last'.assessment.total_score = Pts(35)
           /\ last'.assessment.action = "monitor" ]_vars

\* C5 as amended -- Scenario S1: on a fresh engine with default config the call
\* returns exactly two signals, behavior_rate_anomaly with score 40 followed by
\* privilege_escalation with score 35, total_score 75 and action force_logout.
C5_ScenarioS1 ==
    [][ (EngineState = NewEngine /\ config = DefaultConfig /\ IsS1Call(last'))
        => /\ last'.assessment.signals =
                << RiskSignal("behavior_rate_anomaly", Pts(40)),
                   RiskSignal("privilege_escalation", Pts(35)) >>
           /\ last'.assessment.total_score = Pts(75)
           /\ last'.assessment.action = "force_logout" ]_vars

\* the S1 call was the only call made on the engine
C5_Witness ==
    /\ config = DefaultConfig /\ IsS1Call(last) /\ TotalCalls = 1
    /\ predictor = Predictor0 /\ DOMAIN accounts = {"u"} /\ ~accounts["u"].frozen

\* five samples of latency 100 were recorded for the endpoint
FiveAt100(endpoint) ==
    /\ endpoint \in DOMAIN stats
    /\ stats[endpoint] = [count |-> 5, mean |-> Rat(100), m2 |-> Rat(0)]

\* C6 as stated -- Scenario S5: with timing_sigma_threshold = 3, after five
\* events with latency 100 on one endpoint, a sixth event on that endpoint with
\* latency 1000 emits timing_anomaly (score 15).
C6_Original ==
    [][ ( /\ config.timing_sigma_threshold = 3
          /\ last'.op = "assess_event" /\ last' # last
          /\ FiveAt100(last'.event.endpoint)
          /\ last'.event.latency_ms = 1000 )
        => \E i \in DOMAIN last'.assessment.signals :
              last'.assessment.signals[i] = RiskSignal("timing_anomaly", Pts(15)) ]_vars

\* C6 as amended -- Scenario S5: with timing_sigma_threshold = 3, after five
\* events with latency 100 on one endpoint, a sixth event on that endpoint with
\* latency 1000 emits no timing_anomaly: the sixth sample is part of the
\* statistics it is tested against (mean 250, m2 675000).
C6_ScenarioS5 ==
    [][ ( /\ config.timing_sigma_threshold = 3
          /\ last'.op = "assess_event" /\ last' # last
          /\ FiveAt100(last'.event.endpoint)
          /\ last'.event.latency_ms = 1000 )
        => /\ "timing_anomaly" \notin SignalNames(last'.assessment)
           /\ stats'[last'.event.endpoint] =
                 [count |-> 6, mean |-> Rat(250), m2 |-> Rat(675000)] ]_vars

\* the sixth event, of latency 1000, was assessed after five of latency 100
C6_Witness ==
    /\ IsAssessment /\ config.timing_sigma_threshold = 3
    /\ last.event.latency_ms = 1000
    /\ stats[last.event.endpoint] = [count |-> 6, mean |-> Rat(250), m2 |-> Rat(675000)]

InWindow(event) == last.event.timestamp - event.timestamp <= config.behavior_window

Sorted(events) ==
    \A i, j \in DOMAIN events : i < j => events[i].timestamp <= events[j].timestamp

\* C7 as stated -- Behavior window integrity: after any assess_event, for any
\* order of the event timestamps, every event e held in the user's behavior
\* window satisfies (timestamp of the event just assessed) - e.timestamp <=
\* behavior_window.
C7_Original ==
    IsAssessment =>
        \A i \in DOMAIN HeldEvents(last.user_id) : InWindow(HeldEvents(last.user_id)[i])

\* C7 as amended -- after any assess_event the event at the front of the user's
\* behavior window satisfies (timestamp of the event just assessed) -
\* e.timestamp <= behavior_window, and every held event satisfies it when the
\* held events are in non-decreasing timestamp order, as they are for every
\* non-decreasing sequence of event timestamps for that user.
C7_WindowIntegrity ==
    IsAssessment =>
        LET held == HeldEvents(last.user_id)
        IN  /\ held # <<>>
            /\ InWindow(Head(held))
            /\ held[Len(held)] = last.event
            /\ Sorted(held) => \A i \in DOMAIN held : InWindow(held[i])

\* two events were dropped by one call and the window still holds two
C7_Witness ==
    /\ IsAssessment
    /\ calls[last.user_id] = 4
    /\ Len(HeldEvents(last.user_id)) = 2
    /\ Sorted(HeldEvents(last.user_id))
    /\ last.event.timestamp = 4

\* C8 as stated -- Self-bootstrap: for every sequence_window >= 1, once a single
\* user has made max(3, sequence_window / 2) assess_event calls the predictor is
\* trained.
C8_Original ==
    \A u \in DOMAIN calls :
        (config.sequence_window >= 1
         /\ calls[u] >= Max(3, config.sequence_window \div 2))
        => predictor.is_trained

\* C8 as amended -- Self-bootstrap: for every sequence_window >= 3, once a single
\* user has made max(3, sequence_window / 2) assess_event calls the predictor is
\* trained; with sequence_window 1 or 2 the queue never holds 3 events and live
\* traffic never trains the predictor.
C8_SelfBootstrap ==
    /\ \A u \in DOMAIN calls :
          (config.sequence_window >= 3
           /\ calls[u] >= Max(3, config.sequence_window \div 2))
          => predictor.is_trained
    /\ (config.sequence_window < 3 /\ "bootstrap_model" \notin inputs.controls)
          => ~predictor.is_trained

\* a user's fourth call trained the predictor under sequence_window = 8
C8_Witness ==
    /\ config.sequence_window = 8
    /\ IsAssessment /\ calls[last.user_id] = 4 /\ TotalCalls = 5
    /\ predictor.is_trained /\ predictor.stats.count = 1

\* C9 as stated -- Force-logout removes the current session: whenever
\* assess_event returns force_logout, session_invalidated is true and the session
\* step 1 upserted (keyed by session_id, or by "session-" + user_id when session_id
\* is absent) is no longer in the account's sessions.
C9_Original ==
    (IsAssessment /\ last.assessment.action = "force_logout")
    => /\ last.assessment.session_invalidated
       /\ session_key(last.identity) \notin Sessions(last.user_id)

\* C9 as amended -- whenever assess_event returns force_logout,
\* session_invalidated is true; the session step 1 upserted is no longer in the
\* account's sessions when identity.session_id is present, and is still there,
\* under the key "session-" + user_id, when session_id is absent.
C9_ForceLogout ==
    (IsAssessment /\ last.assessment.action = "force_logout")
    => /\ last.assessment.session_invalidated
       /\ last.identity.session_id # NoSession
             => last.identity.session_id \notin Sessions(last.user_id)
       /\ last.identity.session_id = NoSession
             => ("session-" \o last.user_id) \in Sessions(last.user_id)

\* a force_logout removed the session "s" and left the synthetic one
C9_Witness ==
    /\ IsAssessment /\ last.assessment.action = "force_logout"
    /\ last.identity.session_id = "s"
    /\ Sessions(last.user_id) = {"session-" \o last.user_id}

\* C10 -- Sessions are removed only by reset_sessions or by force_logout: a
\* session present in an account before an operation is present after it unless
\* the operation is reset_sessions for that user or an assess_event for that
\* user whose action is force_logout.
C10_SessionsFrame ==
    [][ \A u \in DOMAIN accounts :
          \A sid \in DOMAIN accounts[u].sessions :
             (u \notin DOMAIN accounts' \/ sid \notin DOMAIN accounts'[u].sessions)
             => \/ last'.op = "reset_sessions" /\ last'.user_id = u
                \/ /\ last'.op = "assess_event" /\ last'.user_id = u
                   /\ last'.assessment.action = "force_logout" ]_vars

\* freeze_account was called for a user who holds a session, another user
\* holding one too, and no session went away
C10_Witness ==
    /\ last.op = "freeze_account"
    /\ Sessions(last.user_id) # {}
    /\ \E v \in DOMAIN accounts : v # last.user_id /\ Sessions(v) # {}

----------------------------------------------------------------------------
(* Properties of concurrent assess_event calls *)

AllDone == \A t \in Threads : threads[t].pc = "done"

\* the orders in which the threads of S can be put
Orders(S) ==
    { o \in [1..Cardinality(S) -> S] : \A i, j \in DOMAIN o : i # j => o[i] # o[j] }

\* an order consistent with invocation order: no call is put before a call that
\* had returned when it was invoked
ConsistentWithInvocation(o) ==
    \A i, j \in DOMAIN o : i < j => o[j] \notin threads[o[i]].after

\* the calls of the threads made one after the other, in the order o, on E
RECURSIVE Sequential(_, _)
Sequential(E, o) ==
    IF o = <<>> THEN [engine |-> E, assessments |-> EmptyMap]
    ELSE LET r    == assess_event(E, config, threads[Head(o)].identity,
                                  threads[Head(o)].event,
                                  threads[Head(o)].privilege_change)
             rest == Sequential(r.engine, Tail(o))
         IN  [engine |-> rest.engine,
              assessments |-> Put(rest.assessments, Head(o), r.assessment)]

\* the engine states the sequential executions of the calls end in
SequentialOutcomes ==
    { Sequential(Base(inputs), o).engine : o \in Orders(Threads) }

TransitionCount(E, prev, next) == Get(Get(E.transitions, prev, EmptyMap), next, 0)

TimingCount(E, endpoint) == Get(E.stats, endpoint, TimingStats0).count

\* the state and the assessments are those of the sequential execution r
SameAs(r) ==
    /\ EngineState = r.engine
    /\ \A t \in Threads : threads[t].assessment = r.assessments[t]

\* C3 -- Same-user ordering under concurrency: the detector steps of two
\* invocations for the same user_id never interleave, and when both have returned
\* the assessments and the engine state are those of a sequential execution of
\* the invocations in an order consistent with invocation order.
C3_SameUserOrdering ==
    /\ \A s, t \in Threads :
          (s # t /\ InFlight(s) /\ InFlight(t)) => User(s) # User(t)
    /\ (AllDone /\ \A s, t \in Threads : User(s) = User(t))
          => \E o \in Orders(Threads) :
                /\ ConsistentWithInvocation(o)
                /\ \E r \in {Sequential(Base(inputs), o)} : SameAs(r)

\* C4 -- Concurrent ingestion is safe for the process-wide tables: after all
\* concurrent assess_event calls have returned, every transition count, every
\* per-endpoint timing count, every trace's service list and every graph set
\* equals what some sequential execution of the same calls produces.
C4_NoLostUpdate ==
    AllDone
    => \E outcomes \in {SequentialOutcomes} :
          /\ \A prev, next \in inputs.endpoints :
                \E S \in outcomes :
                   TransitionCount(EngineState, prev, next) = TransitionCount(S, prev, next)
          /\ \A endpoint \in inputs.endpoints :
                \E S \in outcomes :
                   TimingCount(EngineState, endpoint) = TimingCount(S, endpoint)
          /\ \A trace_id \in inputs.traces :
                \E S \in outcomes :
                   Get(traces, trace_id, <<>>) = Get(S.traces, trace_id, <<>>)
          /\ \A u \in inputs.users :
                \E S \in outcomes :
                   /\ Get(user_to_ips, u, {}) = Get(S.user_to_ips, u, {})
                   /\ Get(user_to_devices, u, {}) = Get(S.user_to_devices, u, {})
          /\ \A ip \in inputs.ips :
                \E S \in outcomes :
                   Get(ip_to_users, ip, {}) = Get(S.ip_to_users, ip, {})


----------------------------------------------------------------------------
(* Properties of the assessment *)

\* C11 -- Side-effect flags follow the action and are mutually exclusive: in
\* every assessment account_frozen is true iff action = freeze_account,
\* session_invalidated is true iff action = force_logout, and the two flags are
\* never both true, for any threshold configuration.
C11_FlagsFollowAction ==
    IsAssessment =>
        /\ last.assessment.account_frozen <=> (last.assessment.action = "freeze_account")
        /\ last.assessment.session_invalidated <=> (last.assessment.action = "force_logout")
        /\ ~(last.assessment.account_frozen /\ last.assessment.session_invalidated)

\* with medium_risk_threshold above high_risk_threshold, an assessment whose
\* total meets both thresholds froze the account and invalidated no session
C11_Witness ==
    /\ IsAssessment
    /\ config.medium_risk_threshold > config.high_risk_threshold
    /\ last.assessment.total_score >= config.medium_risk_threshold
    /\ last.assessment.account_frozen
    /\ ~last.assessment.session_invalidated
    /\ get_account(accounts, last.user_id).frozen
    /\ session_key(last.identity) \in Sessions(last.user_id)


\* the position of a signal's detector in the evaluation order of assess_event
Rank(name) ==
    CASE name = "multi_actor_detection" -> 1
      [] name \in {"behavior_rate_anomaly", "behavior_endpoint_anomaly"} -> 2
      [] name = "api_sequence_anomaly" -> 3
      [] name = "timing_anomaly" -> 4
      [] name = "privilege_escalation" -> 5
      [] name = "privilege_drift" -> 6
      [] name = "microservice_pivot" -> 7
      [] name \in {"shared_ip_risk", "device_sprawl"} -> 8
      [] name = "ml_attack_prediction" -> 9
      [] OTHER -> 0

\* C12 -- Signal order equals evaluation order: in every assessment the signals
\* appear in the order multi_actor_detection, behavior signal,
\* api_sequence_anomaly, timing_anomaly, privilege_escalation, privilege_drift,
\* microservice_pivot, graph signal, ml_attack_prediction, each at most once (so
\* the privilege detector contributes at most two consecutive entries,
\* escalation before drift, and every other detector at most one).
C12_SignalOrder ==
    IsAssessment =>
        LET signals == last.assessment.signals
        IN  /\ \A i \in DOMAIN signals : Rank(signals[i].name) > 0
            /\ \A i, j \in DOMAIN signals :
                  i < j => Rank(signals[i].name) < Rank(signals[j].name)

\* one assessment lists multi_actor_detection, privilege_escalation,
\* privilege_drift and microservice_pivot
C12_Witness ==
    /\ IsAssessment
    /\ [i \in DOMAIN last.assessment.signals |-> last.assessment.signals[i].name]
          = << "multi_actor_detection", "privilege_escalation", "privilege_drift",
               "microservice_pivot" >>


Newest(s, n) == IF Len(s) <= n THEN s ELSE SubSeq(s, Len(s) - n + 1, Len(s))

\* C14 -- Capacity bound: after every assess_event, for every user, the
\* per-user recent-sequence queue of events and the sequence model's per-user
\* endpoint path hold at most sequence_window entries; each is what it held
\* before with the new entry appended and, beyond capacity, the oldest entry
\* evicted.
C14_CapacityBound ==
    [][ last'.op = "assess_event"
        => /\ \A u \in DOMAIN recent_sequences' :
                 Len(recent_sequences'[u]) <= config.sequence_window
           /\ \A u \in DOMAIN recent_paths' :
                 Len(recent_paths'[u]) <= config.sequence_window
           /\ recent_sequences'[last'.user_id] =
                 Newest(Append(Get(recent_sequences, last'.user_id, <<>>), last'.event),
                        config.sequence_window)
           /\ recent_paths'[last'.user_id] =
                 Newest(Append(Get(recent_paths, last'.user_id, <<>>),
                               last'.event.endpoint),
                        config.sequence_window)
           /\ \A u \in DOMAIN recent_sequences \ {last'.user_id} :
                 recent_sequences'[u] = recent_sequences[u] ]_vars

\* a fifth call on a window of 3: the path holds the newest three endpoints
C14_Witness ==
    /\ IsAssessment /\ config.sequence_window = 3
    /\ calls[last.user_id] = 5
    /\ recent_paths[last.user_id] = <<"/y", "/x", "/y">>
    /\ Len(recent_sequences[last.user_id]) = 3
    /\ recent_sequences[last.user_id][1].endpoint = "/y"


\* the signals of the assessment that carry a given name
Named(assessment, name) ==
    {i \in DOMAIN assessment.signals : assessment.signals[i].name = name}

\* the transitions recorded out of prev, over all next endpoints
TransitionsFrom(prev) == SumValues(Get(transitions, prev, EmptyMap))

\* the endpoint appears nowhere in the transition table
NeverSeen(endpoint) ==
    /\ endpoint \notin DOMAIN transitions
    /\ \A prev \in DOMAIN transitions : endpoint \notin DOMAIN transitions[prev]

\* the sequence rule on the tables as they are before the event is recorded
SequenceRule(user_id, endpoint) ==
    /\ Get(recent_paths, user_id, <<>>) # <<>>
    /\ \E prev \in {recent_paths[user_id][Len(recent_paths[user_id])]} :
          /\ TransitionsFrom(prev) >= 2
          /\ 100 * TransitionCount(EngineState, prev, endpoint) < 5 * TransitionsFrom(prev)

\* C15 -- Sequence anomaly rule: an assess_event emits api_sequence_anomaly
\* (score 30) iff the user's path is non-empty and, with prev the last endpoint
\* of the path and the counts taken before the event is recorded, total = sum of
\* transitions[prev][*] >= 2 and transitions[prev][event.endpoint] / total <
\* 0.05; after three or more events on one endpoint, the user's next event on a
\* never-seen endpoint emits it, and a user's first event never does.
C15_SequenceRule ==
    [][ last'.op = "assess_event"
        => /\ (Named(last'.assessment, "api_sequence_anomaly") # {})
                <=> SequenceRule(last'.user_id, last'.event.endpoint)
           /\ \A i \in Named(last'.assessment, "api_sequence_anomaly") :
                 last'.assessment.signals[i].score = Pts(30)
           /\ ( /\ calls[last'.user_id] >= 3
                /\ Range(recent_paths[last'.user_id]) = {"/x"}
                /\ Len(recent_paths[last'.user_id]) = Min(calls[last'.user_id],
                                                         config.sequence_window)
                /\ NeverSeen(last'.event.endpoint) )
              => Named(last'.assessment, "api_sequence_anomaly") # {}
           /\ calls[last'.user_id] = 0
              => Named(last'.assessment, "api_sequence_anomaly") = {} ]_vars

\* the fourth event of a user, on a never-seen endpoint after three on "/x",
\* emitted the anomaly
C15_Witness ==
    /\ IsAssessment /\ calls[last.user_id] = 4
    /\ last.event.endpoint = "/y"
    /\ transitions = ("/x" :> ("/x" :> 2 @@ "/y" :> 1))
    /\ Named(last.assessment, "api_sequence_anomaly") # {}


\* C16 -- Multi-actor rule: every assess_event overwrites the user's stored
\* (fingerprint, timestamp) record with the current one; a user's first call
\* emits nothing; any other call emits multi_actor_detection (score 25) iff the
\* previous fingerprint differs from the current one and identity.timestamp -
\* previous.timestamp <= multi_actor_window.
C16_MultiActorRule ==
    [][ last'.op = "assess_event"
        => /\ recent_fingerprints'[last'.user_id] =
                 <<fingerprint(last'.identity), last'.identity.timestamp>>
           /\ (calls[last'.user_id] = 0) <=> (last'.user_id \notin DOMAIN recent_fingerprints)
           /\ (Named(last'.assessment, "multi_actor_detection") # {})
                <=> /\ last'.user_id \in DOMAIN recent_fingerprints
                    /\ recent_fingerprints[last'.user_id][1] # fingerprint(last'.identity)
                    /\ last'.identity.timestamp - recent_fingerprints[last'.user_id][2]
                          <= config.multi_actor_window
           /\ \A i \in Named(last'.assessment, "multi_actor_detection") :
                 last'.assessment.signals[i].score = Pts(25) ]_vars

\* the device changed exactly multi_actor_window after the previous call
C16_Witness ==
    /\ IsAssessment /\ config.multi_actor_window = 2
    /\ calls[last.user_id] = 3
    /\ last.identity.timestamp = 2 /\ last.identity.device_id = "e"
    /\ Named(last.assessment, "multi_actor_detection") # {}
    /\ recent_fingerprints[last.user_id] = <<fingerprint(last.identity), 2>>


\* the privilege history of a user, empty while the user has no account
History(accts, user_id) == get_account(accts, user_id).privilege_history

IsPrefix(s, t) == Len(s) <= Len(t) /\ SubSeq(t, 1, Len(s)) = s

\* C17 -- Privilege escalation rule and append-only history: an assess_event
\* that carries a privilege change emits privilege_escalation (score 35) iff
\* new_privileges minus previous_privileges is non-empty and appends the change
\* as the last entry of the account's privilege_history whether or not it
\* escalates; without a change no escalation is emitted and the history is
\* unchanged; no operation removes or reorders history entries.
C17_EscalationAndHistory ==
    [][ /\ \A v \in DOMAIN accounts :
              /\ v \in DOMAIN accounts'
              /\ IsPrefix(accounts[v].privilege_history, accounts'[v].privilege_history)
        /\ last'.op = "assess_event" =>
              LET u == last'.user_id
                  c == last'.privilege_change
                  e == Named(last'.assessment, "privilege_escalation")
              IN  /\ c # NoChange =>
                        /\ (e # {}) <=> (c.new_privileges \ c.previous_privileges # {})
                        /\ History(accounts', u) = Append(History(accounts, u), c)
                  /\ c = NoChange =>
                        /\ e = {}
                        /\ History(accounts', u) = History(accounts, u)
                  /\ \A i \in e : last'.assessment.signals[i].score = Pts(35)
                  /\ \A v \in DOMAIN accounts' \ {u} :
                        History(accounts', v) = History(accounts, v) ]_vars

\* a change that removes a privilege has been appended after one that adds
\* one, without a signal, and the account has since been frozen and reset
C17_Witness ==
    /\ last.op = "reset_sessions"
    /\ accounts[last.user_id].frozen
    /\ accounts[last.user_id].privilege_history = <<Escalation, Deescalation>>


\* the privileges that the last n entries of a history add and never held
Drifted(history, n) ==
    LET window == {i \in 1..Len(history) : i > Len(history) - n}
    IN  UNION {history[i].new_privileges : i \in window}
        \ UNION {history[i].previous_privileges : i \in window}

\* C18 -- Privilege drift rule: every assess_event for an account whose
\* privilege_history (after any append in this call) has at least
\* privilege_drift_threshold entries, whether or not the call supplied a change,
\* emits privilege_drift (score 20) iff (union of new_privileges) minus (union
\* of previous_privileges) over the last privilege_drift_threshold entries is
\* non-empty; with fewer entries it is never emitted; it can be emitted together
\* with privilege_escalation.
C18_DriftRule ==
    IsAssessment =>
        LET history == accounts[last.user_id].privilege_history
            d       == Named(last.assessment, "privilege_drift")
        IN  /\ (d # {}) <=> /\ Len(history) >= config.privilege_drift_threshold
                            /\ Drifted(history, config.privilege_drift_threshold) # {}
            /\ \A i \in d : last.assessment.signals[i].score = Pts(20)
            /\ Cardinality(d) <= 1

\* a call without a change emits privilege_drift, after a call that emitted it
\* together with privilege_escalation
C18_Witness ==
    /\ IsAssessment /\ last.privilege_change = NoChange
    /\ Named(last.assessment, "privilege_drift") # {}
    /\ Named(last.assessment, "privilege_escalation") = {}
    /\ accounts[last.user_id].privilege_history = <<Escalation, Escalation>>


\* no account other than user_id's is created, removed or changed by the step
OthersUntouched(user_id) ==
    \A v \in inputs.users \ {user_id} :
        /\ (v \in DOMAIN accounts') <=> (v \in DOMAIN accounts)
        /\ get_account(accounts', v) = get_account(accounts, v)

\* C19 -- Account controls: for any user, known or not, and any prior state,
\* after freeze_account(user) summary(user).frozen is true and the user's
\* sessions and privilege history are unchanged; after reset_sessions(user)
\* summary(user).active_sessions is empty and the frozen flag is unchanged;
\* neither operation changes any other user's account.
C19_AccountControls ==
    [][ /\ last'.op = "freeze_account" =>
              LET u == last'.user_id
              IN  /\ summary(EngineState', u).result.frozen
                  /\ get_account(accounts', u).sessions = get_account(accounts, u).sessions
                  /\ History(accounts', u) = History(accounts, u)
                  /\ OthersUntouched(u)
        /\ last'.op = "reset_sessions" =>
              LET u == last'.user_id
              IN  /\ summary(EngineState', u).result.active_sessions = {}
                  /\ get_account(accounts', u).frozen = get_account(accounts, u).frozen
                  /\ OthersUntouched(u) ]_vars

\* the sessions of a frozen user with a privilege history have been reset
\* while another user holds a session
C19_Witness ==
    /\ last.op = "reset_sessions"
    /\ accounts[last.user_id].frozen
    /\ accounts[last.user_id].privilege_history # <<>>
    /\ calls[last.user_id] > 0
    /\ \E v \in DOMAIN accounts \ {last.user_id} : Sessions(v) # {}


----------------------------------------------------------------------------
(* Properties of the asynchronous path *)

\* C20 -- Async task completion: every request accepted by POST /assess/async
\* is eventually processed, given that the queue delivers and the store is
\* available: the worker's assess_event returns an assessment, a record keyed
\* by the task_id is written, and GET /tasks/{task_id} goes from pending to
\* completed with that assessment and never back to pending.
C20_AsyncCompletion ==
    \A task_id \in TaskIds :
        /\ [](task_id \in tasks.issued
                => <>(/\ task_id \notin tasks.failed
                      /\ task_status(tasks.store, task_id).status = "completed"
                      /\ task_status(tasks.store, task_id).assessment # NoAssessment))
        /\ [](task_status(tasks.store, task_id).status = "completed"
                => [](task_status(tasks.store, task_id).status = "completed"))


----------------------------------------------------------------------------
(* Properties of error handling *)

\* C21 -- The engine reports no errors: from every reachable state,
\* assess_event on a well-formed input returns an assessment (no detector
\* divides by zero, every per-user, per-endpoint and per-trace structure is
\* created on first reference).
C21_NoErrors ==
    IsAssessment => /\ last.raised = None
                    /\ last.assessment # NoAssessment


----------------------------------------------------------------------------
(* Properties of summary *)

\* a table of paths without the entries that hold no endpoint
Paths(paths) == [u \in {v \in DOMAIN paths : paths[v] # <<>>} |-> paths[u]]

\* C22 -- summary is read-only: inserting summary(user_id) calls anywhere in a
\* sequence of operations, for any user including a never-seen one, changes the
\* result of no later assess_event or summary call and changes no account's
\* frozen flag, sessions or privilege history and no detector statistic.  The
\* second engine makes the same run without the inserted calls.
C22_SummaryReadOnly ==
    /\ IsAssessment => replica.assessment = last.assessment
    /\ (last.op = "summary" /\ "replayed" \in DOMAIN last)
          => replica.assessment = last.result
    /\ \A u \in inputs.users :
          LET a == get_account(accounts, u)
              b == get_account(replica.engine.accounts, u)
          IN  /\ a.frozen = b.frozen
              /\ a.sessions = b.sessions
              /\ a.privilege_history = b.privilege_history
    /\ recent_fingerprints = replica.engine.recent_fingerprints
    /\ profiles = replica.engine.profiles
    /\ transitions = replica.engine.transitions
    /\ Paths(recent_paths) = Paths(replica.engine.recent_paths)
    /\ stats = replica.engine.stats
    /\ traces = replica.engine.traces
    /\ user_to_ips = replica.engine.user_to_ips
    /\ user_to_devices = replica.engine.user_to_devices
    /\ ip_to_users = replica.engine.ip_to_users
    /\ predictor = replica.engine.predictor
    /\ recent_sequences = replica.engine.recent_sequences

\* the engine has served summary for a user the second engine has never
\* seen, and both have then assessed an event of a frozen user
C22_Witness ==
    /\ IsAssessment
    /\ accounts[last.user_id].frozen
    /\ \E v \in DOMAIN accounts : v \notin DOMAIN replica.engine.accounts
    /\ DOMAIN recent_paths # DOMAIN replica.engine.recent_paths


----------------------------------------------------------------------------
(* Properties of the detectors *)

\* C23 -- For every assessment, total_score equals the sum of the scores of
\* exactly the signals listed in that assessment (0 when there are none).
C23_TotalIsSum ==
    IsAssessment =>
        LET s == last.assessment.signals
        IN  /\ last.assessment.total_score = SumOver([i \in DOMAIN s |-> s[i].score], DOMAIN s)
            /\ s = <<>> => last.assessment.total_score = 0

\* an assessment that lists four signals: 25 + 35 + 20 + 18
C23_Witness ==
    /\ IsAssessment
    /\ Len(last.assessment.signals) = 4
    /\ last.assessment.total_score = Pts(98)


\* two identities agree on device_id, ip, geo, user_agent and user_id
SameActor(a, b) ==
    /\ a.device_id = b.device_id /\ a.ip = b.ip /\ a.geo = b.geo
    /\ a.user_agent = b.user_agent /\ a.user_id = b.user_id

\* C24 -- Fingerprint determinism: fingerprint(identity) is a function of
\* device_id, ip, geo, user_agent and user_id only: two identities that agree on
\* these five fields have the same fingerprint whatever their session_id, roles,
\* privileges and timestamp, so changing only those other fields between two
\* calls never triggers multi_actor_detection.
C24_FingerprintFields ==
    [][ /\ \A a, b \in Identities(inputs) :
              SameActor(a, b) => fingerprint(a) = fingerprint(b)
        /\ ( /\ last.op = "assess_event" /\ last'.op = "assess_event"
             /\ SameActor(last.identity, last'.identity) )
           => Named(last'.assessment, "multi_actor_detection") = {} ]_vars

\* a second call of the same actor with another session id, other roles and
\* privileges and a later timestamp
C24_Witness ==
    /\ IsAssessment /\ inputs.name = "fields"
    /\ calls[last.user_id] = 2
    /\ last.identity.session_id = NoSession /\ last.identity.roles = {"admin"}
    /\ last.identity.privileges = {"read"} /\ last.identity.timestamp = 5
    /\ accounts[last.user_id].sessions["s"].created_at = 0
    /\ accounts[last.user_id].sessions["s"].device_id = last.identity.device_id
    /\ Named(last.assessment, "multi_actor_detection") = {}


\* the ml_attack_prediction signals of an assessment
MlSignals(assessment) ==
    SelectSeq(assessment.signals, LAMBDA s : s.name = "ml_attack_prediction")

\* C25 (as stated) -- the attack predictor is scored before the current event
\* is appended to the user's recent-sequence queue and before any
\* self-bootstrap sample is fed: its score is computed with the training state
\* and the queue contents that held before the call.
C25_Original ==
    [][ last'.op = "assess_event" =>
           MlSignals(last'.assessment) =
              AttackSequencePredictor_score(
                  predictor, Get(recent_sequences, last'.user_id, <<>>),
                  config.attack_prediction_contamination,
                  config.attack_prediction_score_multiplier) ]_vars

\* C25 -- Step order inside assess_event: the current event is appended to the
\* per-user recent-sequence queue (and any self-bootstrap sample fed) first,
\* and the attack predictor is then scored, as the last detector, on the
\* updated queue with the updated training state; its signal, if any, is the
\* last of the assessment.
C25_StepOrder ==
    [][ last'.op = "assess_event" =>
           /\ MlSignals(last'.assessment) =
                 AttackSequencePredictor_score(
                     predictor', recent_sequences'[last'.user_id],
                     config.attack_prediction_contamination,
                     config.attack_prediction_score_multiplier)
           /\ \A i \in Named(last'.assessment, "ml_attack_prediction") :
                 i = Len(last'.assessment.signals) ]_vars

\* a trained predictor has scored a queue of one event: the user's first
\* event, which the queue did not hold before the call
C25_Witness ==
    /\ IsAssessment
    /\ calls[last.user_id] = 1
    /\ predictor.is_trained
    /\ recent_sequences[last.user_id] = <<last.event>>
    /\ Len(MlSignals(last.assessment)) = 1


\* C26 -- Behavior analyzer precedence: each behavior assess call emits at most
\* one signal; with rate and skew read before and after the event is appended
\* and the window trimmed, it emits behavior_rate_anomaly iff
\* surge = (rate_after - rate_before) / (rate_before + 0.01) > 2.0, and
\* otherwise emits behavior_endpoint_anomaly (score 25) iff
\* skew_after - skew_before > 0.3 and skew_after > 0.5.
C26_BehaviorPrecedence ==
    [][ last'.op = "assess_event" =>
          LET u      == last'.user_id
              e      == last'.event.endpoint
              before == Get(profiles, u, BehaviorProfile0)
              after  == profiles'[u]
              surge  == RDiv(RSub(request_rate(after), request_rate(before)),
                             RAdd(request_rate(before), <<1, 100>>))
              spike  == RSub(endpoint_skew(after, e), endpoint_skew(before, e))
              rate   == Named(last'.assessment, "behavior_rate_anomaly")
              skew   == Named(last'.assessment, "behavior_endpoint_anomaly")
          IN  /\ Cardinality(rate \cup skew) <= 1
              /\ (rate # {}) <=> RLt(Rat(2), surge)
              /\ (skew # {}) <=> /\ ~RLt(Rat(2), surge)
                                 /\ RLt(<<3, 10>>, spike)
                                 /\ RLt(<<1, 2>>, endpoint_skew(after, e))
              /\ \A i \in skew : last'.assessment.signals[i].score = Pts(25) ]_vars

\* behavior_endpoint_anomaly has been emitted: trimming left only events of
\* the current endpoint in the window
C26_Witness ==
    /\ IsAssessment
    /\ Named(last.assessment, "behavior_endpoint_anomaly") # {}
    /\ Named(last.assessment, "behavior_rate_anomaly") = {}
    /\ \A i \in DOMAIN HeldEvents(last.user_id) :
          HeldEvents(last.user_id)[i].endpoint = last.event.endpoint


\* C27 -- Graph rule: each graph assess call emits at most one signal; it emits
\* shared_ip_risk (score 22) iff the ip was not previously recorded for this
\* user and, after insertion, more than 3 distinct users are recorded for the
\* ip; otherwise it emits device_sprawl (score 16) iff the device was not
\* previously recorded for this user and, after insertion, the user has more
\* than 4 devices; when both conditions hold only shared_ip_risk is emitted.
C27_GraphRule ==
    [][ last'.op = "assess_event" =>
          LET u       == last'.user_id
              ip      == last'.identity.ip
              dev     == last'.identity.device_id
              shared  == Named(last'.assessment, "shared_ip_risk")
              sprawl  == Named(last'.assessment, "device_sprawl")
              by_ip   == /\ ip \notin Get(user_to_ips, u, {})
                         /\ Cardinality(ip_to_users'[ip]) > 3
              by_dev  == /\ dev \notin Get(user_to_devices, u, {})
                         /\ Cardinality(user_to_devices'[u]) > 4
          IN  /\ ip_to_users'[ip] = Get(ip_to_users, ip, {}) \cup {u}
              /\ user_to_devices'[u] = Get(user_to_devices, u, {}) \cup {dev}
              /\ user_to_ips'[u] = Get(user_to_ips, u, {}) \cup {ip}
              /\ Cardinality(shared \cup sprawl) <= 1
              /\ (shared # {}) <=> by_ip
              /\ (sprawl # {}) <=> (~by_ip /\ by_dev)
              /\ \A i \in shared : last'.assessment.signals[i].score = Pts(22)
              /\ \A i \in sprawl : last'.assessment.signals[i].score = Pts(16) ]_vars

\* a user's fifth device arrives from an ip new to the user that three other
\* users share: both conditions hold and only shared_ip_risk is emitted
C27_Witness ==
    /\ IsAssessment /\ inputs.name = "sprawl"
    /\ Cardinality(user_to_devices[last.user_id]) = 5
    /\ Cardinality(user_to_ips[last.user_id]) = 2
    /\ Cardinality(ip_to_users[last.identity.ip]) = 4
    /\ calls[last.user_id] = 5
    /\ Named(last.assessment, "shared_ip_risk") # {}
    /\ Named(last.assessment, "device_sprawl") = {}


\* the distinct services recorded for a trace id
Services(tr, trace_id) == Range(Get(tr, trace_id, <<>>))

\* C28 -- Pivot rule: every assess_event appends event.service to the list of
\* its trace_id (shared by all users), and microservice_pivot (score 18) is
\* emitted iff the number of distinct services recorded for that trace,
\* including the current one, is >= pivot_depth_threshold; trace lists never
\* shrink, so once it has been emitted for a trace_id every later event with
\* that trace_id emits it again.
C28_PivotRule ==
    [][ /\ \A t \in DOMAIN traces :
              t \in DOMAIN traces' /\ IsPrefix(traces[t], traces'[t])
        /\ last'.op = "assess_event" =>
              LET t     == last'.event.trace_id
                  pivot == Named(last'.assessment, "microservice_pivot")
              IN  /\ traces'[t] = Append(Get(traces, t, <<>>), last'.event.service)
                  /\ \A o \in DOMAIN traces' \ {t} : o \in DOMAIN traces /\ traces'[o] = traces[o]
                  /\ (pivot # {}) <=>
                        Cardinality(Services(traces', t)) >= config.pivot_depth_threshold
                  /\ Cardinality(Services(traces, t)) >= config.pivot_depth_threshold
                        => pivot # {}
                  /\ Cardinality(pivot) <= 1
                  /\ \A i \in pivot : last'.assessment.signals[i].score = Pts(18) ]_vars

\* a user's first event emits microservice_pivot: the trace already holds two
\* services recorded for another user, and the event repeats one of them
C28_Witness ==
    /\ IsAssessment
    /\ calls[last.user_id] = 1
    /\ Len(traces[last.event.trace_id]) = 3
    /\ Cardinality(Services(traces, last.event.trace_id)) = 2
    /\ Named(last.assessment, "microservice_pivot") # {}
    /\ \E v \in inputs.users : accounts[v].frozen


\* C29 -- The score of every emitted behavior_rate_anomaly signal is exactly
\* 40: the signal is emitted only when surge > 2.0, and then
\* min(20 * surge, 40) = 40, so no rate-anomaly score below 40 is reachable.
C29_RateScore ==
    IsAssessment =>
        \A i \in Named(last.assessment, "behavior_rate_anomaly") :
            last.assessment.signals[i].score = Pts(40)

\* a rate anomaly on a user's third event: the profile held the events at 0
\* and 5 (rate 0.4) and the event at 0 raises the rate to 3, a surge of 6.3
C29_Witness ==
    /\ IsAssessment
    /\ inputs.name = "surge"
    /\ calls[last.user_id] = 3
    /\ Len(profiles[last.user_id].events) = 3
    /\ profiles[last.user_id].events[2].timestamp = 5
    /\ last.event.timestamp = 0
    /\ Named(last.assessment, "behavior_rate_anomaly") # {}


\* the number of events on an endpoint held in a profile's window
HeldOn(profile, endpoint) ==
    Cardinality({i \in DOMAIN profile.events : profile.events[i].endpoint = endpoint})

\* C30 -- Behavior profile consistency: after every assess_event (sequential
\* execution), for every user and every endpoint, the profile's endpoint
\* counter equals the number of events with that endpoint currently held in
\* the profile's window; the counter holds no zero or negative entry and its
\* total equals the window length.
C30_ProfileConsistency ==
    \A u \in DOMAIN profiles :
        LET p == profiles[u]
        IN  /\ \A e \in inputs.endpoints \cup DOMAIN p.endpoint_counter :
                  Get(p.endpoint_counter, e, 0) = HeldOn(p, e)
            /\ \A e \in DOMAIN p.endpoint_counter : p.endpoint_counter[e] > 0
            /\ SumValues(p.endpoint_counter) = Len(p.events)

\* a user's fourth event leaves only itself in the two-second window: the
\* call dropped every event held before, and the counter holds one endpoint
C30_Witness ==
    /\ IsAssessment
    /\ inputs.name = "skew"
    /\ calls[last.user_id] = 4
    /\ profiles[last.user_id].events = <<last.event>>
    /\ DOMAIN profiles[last.user_id].endpoint_counter = {"/y"}


\* an ip is recorded for a user iff the user is recorded for the ip, and a
\* user with a recorded ip has a recorded device
GraphSymmetric(u2i, u2d, i2u) ==
    /\ \A u \in DOMAIN u2i : \A ip \in u2i[u] : u \in Get(i2u, ip, {})
    /\ \A ip \in DOMAIN i2u : \A u \in i2u[ip] : ip \in Get(u2i, u, {})
    /\ \A u \in DOMAIN u2i : u2i[u] # {} => Get(u2d, u, {}) # {}

\* every key of a map of sets is kept, with a superset of its set
Grows(before_, after_) ==
    \A k \in DOMAIN before_ : k \in DOMAIN after_ /\ before_[k] \subseteq after_[k]

\* C31 -- Graph map symmetry: in every reachable state, an ip is in
\* user_to_ips[u] iff u is in ip_to_users[ip], and every user with a recorded
\* ip also has at least one recorded device; the three maps only grow.
C31_GraphSymmetry ==
    /\ GraphSymmetric(user_to_ips, user_to_devices, ip_to_users)
    /\ [][ /\ GraphSymmetric(user_to_ips', user_to_devices', ip_to_users')
           /\ Grows(user_to_ips, user_to_ips')
           /\ Grows(user_to_devices, user_to_devices')
           /\ Grows(ip_to_users, ip_to_users') ]_vars

\* a user recorded on one ip with three others calls from a second ip that
\* another user holds: both users and both ips are cross-recorded
C31_Witness ==
    /\ IsAssessment /\ inputs.name = "sprawl"
    /\ last.user_id = "v" /\ last.identity.ip = "1.1.1.1"
    /\ user_to_ips["v"] = {"1.1.1.1", "2.2.2.2"}
    /\ ip_to_users["1.1.1.1"] = {"u", "v"}
    /\ ip_to_users["2.2.2.2"] = {"v", "w", "x"}


----------------------------------------------------------------------------
(* Properties of the self-bootstrap *)

\* C32 -- Self-bootstrap happens once: across any sequence of assess_event
\* calls, the predictor's baseline receives at most one sample from live
\* traffic; once is_trained is true it never becomes false, and no later
\* assess_event changes the baseline count, mean or m2 (only bootstrap_model
\* can); and the call that feeds the self-bootstrap sample emits no
\* ml_attack_prediction signal.
C32_SelfBootstrapOnce ==
    [][ /\ predictor.is_trained => predictor'.is_trained
        /\ calls' # calls =>
              /\ predictor.is_trained => predictor'.stats = predictor.stats
              /\ predictor'.stats # predictor.stats =>
                    /\ predictor'.stats.count = predictor.stats.count + 1
                    /\ predictor'.is_trained
                    /\ Named(last'.assessment, "ml_attack_prediction") = {} ]_vars


----------------------------------------------------------------------------
(* Properties of the frozen flag *)

\* C33 -- The frozen flag is never read by assessment: for two engines whose
\* states differ only in accounts' frozen flags, every later assess_event
\* returns the same signals, total_score, action and flags and has the same
\* effect on sessions (and on every other table); a frozen account is still
\* assessed and its session is still upserted.
C33_FrozenNotRead ==
    /\ IsAssessment => replica.assessment = last.assessment
    /\ \A u \in inputs.users :
          LET a == get_account(accounts, u)
              b == get_account(replica.engine.accounts, u)
          IN  /\ a.sessions = b.sessions
              /\ a.privilege_history = b.privilege_history
              /\ b.frozen => a.frozen
    /\ recent_fingerprints = replica.engine.recent_fingerprints
    /\ profiles = replica.engine.profiles
    /\ transitions = replica.engine.transitions
    /\ recent_paths = replica.engine.recent_paths
    /\ stats = replica.engine.stats
    /\ traces = replica.engine.traces
    /\ user_to_ips = replica.engine.user_to_ips
    /\ user_to_devices = replica.engine.user_to_devices
    /\ ip_to_users = replica.engine.ip_to_users
    /\ predictor = replica.engine.predictor
    /\ recent_sequences = replica.engine.recent_sequences
    /\ (IsAssessment /\ last.assessment.action # "force_logout") =>
          LET sessions == accounts[last.user_id].sessions
              key      == session_key(last.identity)
          IN  /\ key \in DOMAIN sessions
              /\ sessions[key].last_seen = last.identity.timestamp

\* an account frozen by freeze_account on the engine only has been assessed:
\* the call escalated privileges, returned monitor and stored the session
C33_Witness ==
    /\ IsAssessment
    /\ accounts[last.user_id].frozen
    /\ ~replica.engine.accounts[last.user_id].frozen
    /\ calls[last.user_id] = 2
    /\ last.assessment.action = "monitor"
    /\ Named(last.assessment, "privilege_escalation") # {}
    /\ session_key(last.identity) \in Sessions(last.user_id)


----------------------------------------------------------------------------
(* Properties of session invalidation *)

\* C34 -- Session invalidation is not remembered: after an assess_event with
\* action force_logout has removed session s, or after reset_sessions, the
\* next assess_event for that user with session_id s (the account does not
\* hold s when it is made) puts s back in the account's sessions, unless that
\* call is itself a force_logout, with created_at and last_seen both set to
\* that call's identity.timestamp.
C34_SessionRestored ==
    [][ ( /\ calls' # calls
          /\ last'.identity.session_id # NoSession
          /\ last'.identity.session_id \notin Sessions(last'.user_id)
          /\ last'.assessment.action # "force_logout" )
        => LET s        == last'.identity.session_id
               sessions == accounts'[last'.user_id].sessions
           IN  /\ s \in DOMAIN sessions
               /\ sessions[s].created_at = last'.identity.timestamp
               /\ sessions[s].last_seen = last'.identity.timestamp ]_vars

\* the user's first call, at timestamp 0, was a force_logout that removed
\* "s" (a first call always carries the rate anomaly); the second call, at
\* timestamp 5, returned monitor and has put "s" back
C34_Witness ==
    /\ IsAssessment
    /\ calls[last.user_id] = 2
    /\ HeldEvents(last.user_id)[1].timestamp = 0
    /\ last.identity.session_id = "s"
    /\ last.identity.timestamp = 5
    /\ last.assessment.action = "monitor"
    /\ Sessions(last.user_id) = {"s"}
    /\ accounts[last.user_id].sessions["s"].created_at = 5

====
